---- MODULE Spec2Model ----
(***************************************************************************)
(* Query Orchestration Engine of the ai-service: intent classification,    *)
(* retrieval with adaptive thresholding, model selection and generation    *)
(* with rate-limit fallback (services/orchestrator.py,                     *)
(* services/intent_classifier.py, core/model_manager.py).                  *)
(*                                                                         *)
(* Text is a sequence of characters.  A character outside ASCII is written *)
(* as its base letter followed by its marks: ! grave, ' acute, ? hook,     *)
(* ~ tilde, . dot below, ^ circumflex, ( breve, + horn; dd is d-stroke.    *)
(* Similarity scores and thresholds are in tenths (0.5 is 5).              *)
(***************************************************************************)
EXTENDS Integers, Sequences, FiniteSets, TLC

None == "None"

\* ------------------------------------------------------------------------
\* IntentClassifier.INTENTS[...]["keywords"] and the local keyword lists
\* ------------------------------------------------------------------------
direct_chat_keywords ==
  << <<"g","i","a?","i">>,  \* gia?i
     <<"t","i'","n","h">>,  \* ti'nh
     <<"v","i","e^'","t"," ","c","o","d","e">>,  \* vie^'t code
     <<"d","e","b","u","g">>,  \* debug
     <<"l","o^~","i">>,  \* lo^~i
     <<"s","u+?","a">>,  \* su+?a
     <<"g","i","a?","i"," ","t","h","i'","c","h">>,  \* gia?i thi'ch
     <<"l","a!"," ","g","i!">>,  \* la! gi!
     <<"t","a.","i"," ","s","a","o">>,  \* ta.i sao
     <<"l","a!","m"," ","t","h","e^'"," ","n","a!","o">>,  \* la!m the^' na!o
     <<"v","i'"," ","d","u.">>,  \* vi' du.
     <<"s","o"," ","v","o+'","i">>,  \* so vo+'i
     <<"c","h","u+","o+","n","g"," ","t","r","i!","n","h">>  \* chu+o+ng tri!nh
  >>

rag_query_keywords ==
  << <<"t","h","e","o"," ","t","a!","i"," ","l","i","e.^","u">>,  \* theo ta!i lie.^u
     <<"t","r","o","n","g"," ","f","i","l","e">>,  \* trong file
     <<"t","r","o","n","g"," ","t","a!","i"," ","l","i","e.^","u">>,  \* trong ta!i lie.^u
     <<"d","u+.","a"," ","v","a!","o">>,  \* du+.a va!o
     <<"d","u+.","a"," ","t","h","e","o">>,  \* du+.a theo
     <<"f","i","l","e"," ","n","o'","i"," ","g","i!">>,  \* file no'i gi!
     <<"t","a!","i"," ","l","i","e.^","u"," ","c","o'">>,  \* ta!i lie.^u co'
     <<"t","r","o","n","g"," ","b","a!","i">>,  \* trong ba!i
     <<"t","h","e","o"," ","b","a!","i">>  \* theo ba!i
  >>

summarization_keywords ==
  << <<"t","o'","m"," ","t","a('","t">>,  \* to'm ta('t
     <<"s","u","m","m","a","r","i","z","e">>,  \* summarize
     <<"t","o^?","n","g"," ","h","o+.","p">>,  \* to^?ng ho+.p
     <<"t","o^?","n","g"," ","k","e^'","t">>,  \* to^?ng ke^'t
     <<"s","u","m","m","a","r","y">>,  \* summary
     <<"o","v","e","r","v","i","e","w">>,  \* overview
     <<"n","o.^","i"," ","d","u","n","g"," ","c","h","i'","n","h">>,  \* no.^i dung chi'nh
     <<"dd","i","e^?","m"," ","c","h","i'","n","h">>,  \* ddie^?m chi'nh
     <<"k","e","y"," ","p","o","i","n","t","s">>  \* key points
  >>

question_generation_keywords ==
  << <<"t","a.","o"," ","c","a^","u"," ","h","o?","i">>,  \* ta.o ca^u ho?i
     <<"dd","u+","a"," ","r","a"," ","c","a^","u"," ","h","o?","i">>,  \* ddu+a ra ca^u ho?i
     <<"g","o+.","i"," ","y'"," ","c","a^","u"," ","h","o?","i">>,  \* go+.i y' ca^u ho?i
     <<"c","a^","u"," ","h","o?","i"," ","k","h","a'","c">>,  \* ca^u ho?i kha'c
     <<"c","a^","u"," ","h","o?","i"," ","t","h","e^","m">>,  \* ca^u ho?i the^m
     <<"c","a^","u"," ","h","o?","i"," ","t","u+","o+","n","g"," ","t","u+.">>,  \* ca^u ho?i tu+o+ng tu+.
     <<"g","e","n","e","r","a","t","e"," ","q","u","e","s","t","i","o","n","s">>,  \* generate questions
     <<"s","u","g","g","e","s","t"," ","q","u","e","s","t","i","o","n","s">>,  \* suggest questions
     <<"q","u","e","s","t","i","o","n","s"," ","a","b","o","u","t">>,  \* questions about
     <<"q","u","i","z">>,  \* quiz
     <<"p","r","a","c","t","i","c","e"," ","q","u","e","s","t","i","o","n","s">>  \* practice questions
  >>

homework_solver_keywords ==
  << <<"g","i","a?","i"," ","b","a!","i">>,  \* gia?i ba!i
     <<"g","i","a?","i"," ","b","a!","i"," ","t","a.^","p">>,  \* gia?i ba!i ta.^p
     <<"h","o","m","e","w","o","r","k">>,  \* homework
     <<"b","a!","i"," ","t","a.^","p">>,  \* ba!i ta.^p
     <<"e","x","e","r","c","i","s","e">>,  \* exercise
     <<"p","r","o","b","l","e","m">>,  \* problem
     <<"l","a!","m"," ","g","i","u'","p">>,  \* la!m giu'p
     <<"h","u+","o+'","n","g"," ","d","a^~","n"," ","g","i","a?","i">>  \* hu+o+'ng da^~n gia?i
  >>

code_help_keywords ==
  << <<"c","o","d","e">>,  \* code
     <<"v","i","e^'","t"," ","c","o","d","e">>,  \* vie^'t code
     <<"l","a.^","p"," ","t","r","i!","n","h">>,  \* la.^p tri!nh
     <<"p","r","o","g","r","a","m">>,  \* program
     <<"i","m","p","l","e","m","e","n","t">>,  \* implement
     <<"f","u","n","c","t","i","o","n">>,  \* function
     <<"c","l","a","s","s">>,  \* class
     <<"d","e","b","u","g">>  \* debug
  >>

factual_patterns ==
  << <<"l","a!"," ","g","i!">>,  \* la! gi!
     <<"w","h","a","t"," ","i","s">>,  \* what is
     <<"d","e","f","i","n","e">>,  \* define
     <<"n","g","h","i~","a"," ","l","a!">>,  \* nghi~a la!
     <<"m","e","a","n","i","n","g">>,  \* meaning
     <<"k","h","a'","c"," ","n","h","a","u">>,  \* kha'c nhau
     <<"d","i","f","f","e","r","e","n","c","e">>,  \* difference
     <<"s","o"," ","s","a'","n","h">>,  \* so sa'nh
     <<"c","o","m","p","a","r","e">>,  \* compare
     <<"l","a!">>,  \* la!
     <<"m","e","a","n","s">>,  \* means
     <<"r","e","f","e","r","s"," ","t","o">>  \* refers to
  >>

complex_keywords ==
  << <<"p","h","a^","n"," ","t","i'","c","h">>,  \* pha^n ti'ch
     <<"a","n","a","l","y","z","e">>,  \* analyze
     <<"a","n","a","l","y","s","i","s">>,  \* analysis
     <<"s","o"," ","s","a'","n","h">>,  \* so sa'nh
     <<"c","o","m","p","a","r","e">>,  \* compare
     <<"c","o","m","p","a","r","i","s","o","n">>,  \* comparison
     <<"t","o^?","n","g"," ","h","o+.","p">>,  \* to^?ng ho+.p
     <<"s","y","n","t","h","e","s","i","z","e">>,  \* synthesize
     <<"s","y","n","t","h","e","s","i","s">>,  \* synthesis
     <<"dd","a'","n","h"," ","g","i","a'">>,  \* dda'nh gia'
     <<"e","v","a","l","u","a","t","e">>,  \* evaluate
     <<"e","v","a","l","u","a","t","i","o","n">>,  \* evaluation
     <<"g","i","a?","i"," ","t","h","i'","c","h"," ","c","h","i"," ","t","i","e^'","t">>,  \* gia?i thi'ch chi tie^'t
     <<"e","x","p","l","a","i","n"," ","i","n"," ","d","e","t","a","i","l">>,  \* explain in detail
     <<"t","a.","i"," ","s","a","o">>,  \* ta.i sao
     <<"w","h","y">>,  \* why
     <<"h","o","w"," ","d","o","e","s">>,  \* how does
     <<"m","o^'","i"," ","q","u","a","n"," ","h","e.^">>,  \* mo^'i quan he.^
     <<"r","e","l","a","t","i","o","n","s","h","i","p"," ","b","e","t","w","e","e","n">>  \* relationship between
  >>

\* ------------------------------------------------------------------------
\* Bounds and the inputs drawn from them
\* ------------------------------------------------------------------------
MaxFragments == 2
MaxDocs == 2
MaxTopK == 6

Pad(n) == [i \in 1..n |-> "x"]

F_TomTat == <<"T","o'","m"," ","t","a('","t">>  \* To'm ta('t
F_quiz == <<"q","u","i","z">>  \* quiz
F_theoTaiLieu == <<"t","h","e","o"," ","t","a!","i"," ","l","i","e.^","u">>  \* theo ta!i lie.^u
F_baiTap == <<"b","a!","i"," ","t","a.^","p">>  \* ba!i ta.^p
F_lamGiup == <<"l","a!","m"," ","g","i","u'","p">>  \* la!m giu'p
F_code == <<"c","o","d","e">>  \* code
F_SoSanh == <<"S","o"," ","s","a'","n","h">>  \* So sa'nh
F_qmark == <<"?">>  \* ?
F_pad50 == Pad(50)
F_pad51 == Pad(51)

Fragments ==
  << F_TomTat, F_quiz, F_theoTaiLieu, F_baiTap, F_lamGiup, F_code,
     F_SoSanh, F_qmark, F_pad50, F_pad51 >>

RECURSIVE QuestionsOf(_)
QuestionsOf(n) ==
  IF n = 0 THEN { <<>> }
  ELSE LET P == QuestionsOf(n - 1)
       IN  P \cup { p \o Fragments[i] : p \in P, i \in 1..Len(Fragments) }

Questions == QuestionsOf(MaxFragments)

Intents ==
  { "direct_chat", "rag_query", "summarization", "question_generation",
    "homework_solver", "code_help" }

\* ------------------------------------------------------------------------
\* State
\* ------------------------------------------------------------------------
VARIABLES
  pc,              \* position in the request (or in the classifier calls)
  question,        \* the request's question (characters)
  has_documents,   \* classify argument / process_query's has_docs
  document_count,  \* classify argument
  intent,          \* classify's return value
  is_complex,      \* is_complex_query's return value
  gemini_api_key,  \* ModelManager: TRUE when the Gemini key is configured
  groq_client,     \* ModelManager: TRUE when the Groq client exists
  settings,        \* core.config.settings (the RAG fields)
  user_id,         \* request: requester
  document_ids,    \* request: [none, list], None or a list of document ids
  top_k,           \* request: top_k
  score_threshold, \* request: score_threshold (tenths)
  temperature,     \* request: << >> (None) or <<temperature in tenths>>
  request,         \* << >> or <<the arguments of query_with_orchestrator>>
  store,           \* ids of the points now in the Qdrant collection
  store_changes,   \* document uploads/deletions seen during the request
  retrieve_args,   \* [top_k, score_threshold] passed to _retrieve_contexts
  query_vector,    \* embedding of the question
  search_results,  \* hits of the latest similarity search
  contexts,        \* contexts returned by the retriever
  embed_calls,     \* number of embed_query calls
  search_calls,    \* arguments of every client.search call, in order
  scan_calls,      \* arguments of every client.scroll call, in order
  model_calls,     \* arguments of every get_model call, in order
  gen_calls,       \* every generate_text call, in order, with its outcome
  selected,        \* <<provider_name, model_identifier>> of the handler
  prompt_contexts, \* the contexts the generation prompt was built from
  result,          \* << >> or <<the dict process_query returns>>
  error,           \* << >> or the message chain of the raised exception
  parked           \* << >> or <<the state of a second request in progress>>

classifierVars ==
  << pc, question, has_documents, document_count, intent, is_complex >>

configVars == << gemini_api_key, groq_client, settings >>

requestVars ==
  << user_id, document_ids, top_k, score_threshold, temperature, request >>

retrievalVars ==
  << retrieve_args, query_vector, search_results, contexts, embed_calls,
     search_calls, scan_calls >>

generationVars == << model_calls, gen_calls, selected, prompt_contexts >>

outcomeVars == << result, error >>

vars ==
  << pc, question, has_documents, document_count, intent, is_complex,
     gemini_api_key, groq_client, settings, user_id, document_ids, top_k,
     score_threshold, temperature, request, store, store_changes, retrieve_args, query_vector,
     search_results, contexts, embed_calls, search_calls, scan_calls,
     model_calls, gen_calls, selected, prompt_contexts, result, error,
     parked >>

\* ------------------------------------------------------------------------
\* services/intent_classifier.py
\* ------------------------------------------------------------------------
UpperChars ==
  << "A","B","C","D","E","F","G","H","I","J","K","L","M","N","O","P","Q",
     "R","S","T","U","V","W","X","Y","Z","DD","U+.","A!","O'" >>
LowerChars ==
  << "a","b","c","d","e","f","g","h","i","j","k","l","m","n","o","p","q",
     "r","s","t","u","v","w","x","y","z","dd","u+.","a!","o'" >>

\* str.lower(), character by character
lower(text) ==
  [ i \in 1..Len(text) |->
      IF \E k \in 1..Len(UpperChars) : UpperChars[k] = text[i]
      THEN LowerChars[CHOOSE k \in 1..Len(UpperChars) : UpperChars[k] = text[i]]
      ELSE text[i] ]

\* "keyword in text": substring containment
Contains(text, keyword) ==
  \E i \in 0..(Len(text) - Len(keyword)) :
     \A j \in 1..Len(keyword) : text[i + j] = keyword[j]

\* str.count(ch) for a single character
RECURSIVE count(_, _)
count(text, ch) ==
  IF text = <<>> THEN 0
  ELSE (IF Head(text) = ch THEN 1 ELSE 0) + count(Tail(text), ch)

_has_keywords(text, keywords) ==
  \E k \in 1..Len(keywords) : Contains(text, keywords[k])

_is_factual_question(text) == _has_keywords(text, factual_patterns)

\* classify with the code-help test moved ahead of the homework test
classify_code_first(q, has_docs, doc_count) ==
  LET question_lower == lower(q) IN
  IF _has_keywords(question_lower, summarization_keywords) /\ has_docs
    THEN "summarization"
  ELSE IF _has_keywords(question_lower, question_generation_keywords)
    THEN (IF has_docs THEN "question_generation" ELSE "direct_chat")
  ELSE IF _has_keywords(question_lower, rag_query_keywords)
    THEN "rag_query"
  ELSE IF _has_keywords(question_lower, code_help_keywords)
    THEN "code_help"
  ELSE IF _has_keywords(question_lower, homework_solver_keywords)
    THEN "homework_solver"
  ELSE IF has_docs /\ _is_factual_question(question_lower)
    THEN "rag_query"
  ELSE IF has_docs /\ doc_count > 0
    THEN "rag_query"
  ELSE "direct_chat"

\* summarization keywords deciding without looking at has_documents
classify_summarization_without_docs(q, has_docs, doc_count) ==
  LET question_lower == lower(q) IN
  IF _has_keywords(question_lower, summarization_keywords)
    THEN "summarization"
  ELSE IF _has_keywords(question_lower, question_generation_keywords)
    THEN (IF has_docs THEN "question_generation" ELSE "direct_chat")
  ELSE IF _has_keywords(question_lower, rag_query_keywords)
    THEN "rag_query"
  ELSE IF _has_keywords(question_lower, homework_solver_keywords)
    THEN "homework_solver"
  ELSE IF _has_keywords(question_lower, code_help_keywords)
    THEN "code_help"
  ELSE IF has_docs /\ _is_factual_question(question_lower)
    THEN "rag_query"
  ELSE IF has_docs /\ doc_count > 0
    THEN "rag_query"
  ELSE "direct_chat"

\* classify without the has_documents test of the question-generation rule
classify_qgen_without_docs(q, has_docs, doc_count) ==
  LET question_lower == lower(q) IN
  IF _has_keywords(question_lower, summarization_keywords) /\ has_docs
    THEN "summarization"
  ELSE IF _has_keywords(question_lower, question_generation_keywords)
    THEN "question_generation"
  ELSE IF _has_keywords(question_lower, rag_query_keywords)
    THEN "rag_query"
  ELSE IF _has_keywords(question_lower, homework_solver_keywords)
    THEN "homework_solver"
  ELSE IF _has_keywords(question_lower, code_help_keywords)
    THEN "code_help"
  ELSE IF has_docs /\ _is_factual_question(question_lower)
    THEN "rag_query"
  ELSE IF has_docs /\ doc_count > 0
    THEN "rag_query"
  ELSE "direct_chat"

\* classify without its two rules for requests that carry documents
classify_keywords_only(q, has_docs, doc_count) ==
  LET question_lower == lower(q) IN
  IF _has_keywords(question_lower, summarization_keywords) /\ has_docs
    THEN "summarization"
  ELSE IF _has_keywords(question_lower, question_generation_keywords)
    THEN (IF has_docs THEN "question_generation" ELSE "direct_chat")
  ELSE IF _has_keywords(question_lower, rag_query_keywords)
    THEN "rag_query"
  ELSE IF _has_keywords(question_lower, homework_solver_keywords)
    THEN "homework_solver"
  ELSE IF _has_keywords(question_lower, code_help_keywords)
    THEN "code_help"
  ELSE "direct_chat"

classify(q, has_docs, doc_count) ==
  LET question_lower == lower(q) IN
  IF _has_keywords(question_lower, summarization_keywords) /\ has_docs
    THEN "summarization"
  ELSE IF _has_keywords(question_lower, question_generation_keywords)
    THEN (IF has_docs THEN "question_generation" ELSE "direct_chat")
  ELSE IF _has_keywords(question_lower, rag_query_keywords)
    THEN "rag_query"
  ELSE IF _has_keywords(question_lower, homework_solver_keywords)
    THEN "homework_solver"
  ELSE IF _has_keywords(question_lower, code_help_keywords)
    THEN "code_help"
  ELSE IF has_docs /\ _is_factual_question(question_lower)
    THEN "rag_query"
  ELSE IF has_docs /\ doc_count > 0
    THEN "rag_query"
  ELSE "direct_chat"

LongQuestionLen == 100

\* the length test with the boundary included
is_complex_query_from_100(q) ==
  LET question_lower == lower(q) IN
  IF Len(q) >= LongQuestionLen THEN TRUE
  ELSE IF _has_keywords(question_lower, complex_keywords) THEN TRUE
  ELSE IF count(q, "?") > 1 THEN TRUE
  ELSE FALSE

is_complex_query(q) ==
  LET question_lower == lower(q) IN
  IF Len(q) > LongQuestionLen THEN TRUE
  ELSE IF _has_keywords(question_lower, complex_keywords) THEN TRUE
  ELSE IF count(q, "?") > 1 THEN TRUE
  ELSE FALSE

\* ------------------------------------------------------------------------
\* core/model_manager.py
\* ------------------------------------------------------------------------
GEMINI_FLASH_MODEL == "gemini-1.5-flash-latest"
GEMINI_PRO_MODEL == "gemini-1.5-pro-latest"
GROQ_LLAMA_MODEL == "llama-3.3-70b-versatile"

\* the message of the ValueError of get_model
E_NoLLM ==
  <<"N","o"," ","L","L","M"," ","a","v","a","i","l","a","b","l","e","!">>

\* what get_model hands back: a (provider_name, model_identifier) pair, or
\* the ValueError it raises
Model(p, m) ==
  [ok |-> TRUE, provider_name |-> p, model_identifier |-> m, error |-> << >>]
NoModel(msg) ==
  [ok |-> FALSE, provider_name |-> None, model_identifier |-> None,
   error |-> msg]

\* rag_query sent to the high-capability model at every complexity
_select_model_key_rag_always_pro(task_type, complexity) ==
  IF task_type \in {"summarization", "question_generation", "homework_solver"}
    THEN "gemini_pro"
  ELSE IF task_type = "rag_query"
    THEN "gemini_pro"
  ELSE "gemini_flash"

_select_model_key(task_type, complexity) ==
  IF task_type \in {"summarization", "question_generation", "homework_solver"}
    THEN "gemini_pro"
  ELSE IF task_type = "rag_query" /\ complexity = "high"
    THEN "gemini_pro"
  ELSE IF task_type \in {"direct_chat", "code_help"} /\ complexity = "low"
    THEN "gemini_flash"
  ELSE "gemini_flash"

\* get_model without the fallback to the first configured provider
get_model_tier_only(task_type, complexity, force_provider) ==
  IF force_provider = "groq" /\ groq_client
    THEN Model("groq-llama", GROQ_LLAMA_MODEL)
  ELSE IF force_provider = "gemini" /\ gemini_api_key
    THEN Model("gemini-flash", GEMINI_FLASH_MODEL)
  ELSE
    LET model_key == _select_model_key(task_type, complexity) IN
    IF model_key = "gemini_flash" /\ gemini_api_key
      THEN Model("gemini-flash", GEMINI_FLASH_MODEL)
    ELSE IF model_key = "gemini_pro" /\ gemini_api_key
      THEN Model("gemini-pro", GEMINI_PRO_MODEL)
    ELSE IF model_key = "groq" /\ groq_client
      THEN Model("groq-llama", GROQ_LLAMA_MODEL)
    ELSE NoModel(E_NoLLM)

\* get_model with the forced provider looked at after the task's tier
get_model_tier_before_forced(task_type, complexity, force_provider) ==
  LET model_key == _select_model_key(task_type, complexity) IN
  IF model_key = "gemini_flash" /\ gemini_api_key
    THEN Model("gemini-flash", GEMINI_FLASH_MODEL)
  ELSE IF model_key = "gemini_pro" /\ gemini_api_key
    THEN Model("gemini-pro", GEMINI_PRO_MODEL)
  ELSE IF force_provider = "groq" /\ groq_client
    THEN Model("groq-llama", GROQ_LLAMA_MODEL)
  ELSE IF gemini_api_key
    THEN Model("gemini-flash", GEMINI_FLASH_MODEL)
  ELSE IF groq_client
    THEN Model("groq-llama", GROQ_LLAMA_MODEL)
  ELSE NoModel(E_NoLLM)

get_model(task_type, complexity, force_provider) ==
  IF force_provider = "groq" /\ groq_client
    THEN Model("groq-llama", GROQ_LLAMA_MODEL)
  ELSE IF force_provider = "gemini" /\ gemini_api_key
    THEN Model("gemini-flash", GEMINI_FLASH_MODEL)
  ELSE
    LET model_key == _select_model_key(task_type, complexity) IN
    IF model_key = "gemini_flash" /\ gemini_api_key
      THEN Model("gemini-flash", GEMINI_FLASH_MODEL)
    ELSE IF model_key = "gemini_pro" /\ gemini_api_key
      THEN Model("gemini-pro", GEMINI_PRO_MODEL)
    ELSE IF model_key = "groq" /\ groq_client
      THEN Model("groq-llama", GROQ_LLAMA_MODEL)
    ELSE IF gemini_api_key
      THEN Model("gemini-flash", GEMINI_FLASH_MODEL)
    ELSE IF groq_client
      THEN Model("groq-llama", GROQ_LLAMA_MODEL)
    ELSE NoModel(E_NoLLM)

ModelCall(task_type, complexity, force_provider) ==
  [task_type |-> task_type, complexity |-> complexity,
   force_provider |-> force_provider]

\* ------------------------------------------------------------------------
\* generate_text as the orchestrator sees it: a text, or an exception whose
\* message the orchestrator inspects
\* ------------------------------------------------------------------------
Text_A == <<"o","k">>
Text_B == <<"a"," ","b">>
Texts == { Text_A, Text_B }

E_code429 == <<"c","o","d","e"," ","4","2","9">>
E_TooManyRequests ==
  <<"T","o","o"," ","M","a","n","y"," ","R","e","q","u","e","s","t","s">>
E_timeout == <<"t","i","m","e","d"," ","o","u","t">>
E_unexpected == <<"U","n","e","x","p","e","c","t","e","d">>
E_unexpected429 ==
  <<"U","n","e","x","p","e","c","t","e","d",":"," ","4","2","9">>

\* errors of a rate-limited call (HTTP 429), by provider wording
RateLimitErrors == { E_code429, E_TooManyRequests }
\* a timeout, an unexpected response shape, and an unexpected response shape
\* whose dumped payload holds the digits 429
OtherErrors == { E_timeout, E_unexpected, E_unexpected429 }
GenErrors == RateLimitErrors \cup OtherErrors

Succeeded(text) == [ok |-> TRUE, text |-> text, error |-> <<>>]
Failed(msg) == [ok |-> FALSE, text |-> <<>>, error |-> msg]
GenOutcomes == { Succeeded(t) : t \in Texts } \cup { Failed(e) : e \in GenErrors }

\* the LLM_TEMPERATURE setting, in tenths
LLM_TEMPERATURE == 7

\* "temperature or <default>" at the generation call of each handler (and
\* of _fallback_chat): None and 0 are both replaced by the default
handler_temperature(i, t) ==
  IF t # << >> /\ t[1] # 0 THEN t[1]
  ELSE CASE i = "rag_query" -> LLM_TEMPERATURE
         [] i = "summarization" -> 5
         [] i = "question_generation" -> 9
         [] OTHER -> 7

GenCall(provider, model, outcome) ==
  [provider_name |-> provider, model_identifier |-> model,
   temperature |-> handler_temperature(intent, temperature),
   outcome |-> outcome]

\* the test reduced to its first disjunct
is_rate_limit_only_429(error_str) == Contains(error_str, <<"4","2","9">>)

\* the test replaced by a retry on every error
is_rate_limit_any_error(error_str) == TRUE

\* the test of _generate_with_fallback on str(gen_error)
is_rate_limit(error_str) ==
  \/ Contains(error_str, <<"4","2","9">>)
  \/ Contains(error_str,
       <<"T","o","o"," ","M","a","n","y"," ","R","e","q","u","e","s","t","s">>)

\* str.split(): the number of maximal runs of non-whitespace characters
Whitespace == { " ", "\n", "\t" }
word_count(text) ==
  Cardinality({ i \in 1..Len(text) :
                  /\ text[i] \notin Whitespace
                  /\ (i = 1 \/ text[i - 1] \in Whitespace) })

_estimate_tokens(input_text, output_text) ==
  word_count(input_text) + word_count(output_text)

\* ------------------------------------------------------------------------
\* The Qdrant collection: points, their payloads and their similarity to
\* the two query vectors
\* ------------------------------------------------------------------------
Users == { "u1", "u2" }
AllDocs == << "d1", "d2", "d3", "d4" >>
Vectors == { "v1", "v2" }

PointIds == 1..5

ScrollLimit == 100

StoredPayloads ==
  << [user_id |-> "u1", document_id |-> "d1", chunk_index |-> 1,
      chunk_text |-> <<"b"," ","c">>, file_name |-> <<"f","1">>],
     [user_id |-> "u1", document_id |-> "d1", chunk_index |-> 0,
      chunk_text |-> <<"a">>, file_name |-> <<"f","1">>],
     [user_id |-> "u1", document_id |-> "d2", chunk_index |-> 0,
      chunk_text |-> <<"d">>, file_name |-> <<"f","2">>],
     [user_id |-> "u1", document_id |-> "d2", chunk_index |-> 1,
      chunk_text |-> <<>>, file_name |-> <<"f","2">>],
     [user_id |-> "u2", document_id |-> "d3", chunk_index |-> 0,
      chunk_text |-> <<"e"," ","f">>, file_name |-> <<"f","3">>] >>

\* a document of one more chunk than a scroll returns, stored under point
\* ids that run against its chunk order
LongDocumentChunks == ScrollLimit + 1
LongDocumentPayloads ==
  [ j \in 1..LongDocumentChunks |->
      [user_id |-> "u1", document_id |-> "d4",
       chunk_index |-> LongDocumentChunks - j,
       chunk_text |-> <<"g">>, file_name |-> <<"f","4">>] ]

Payloads == StoredPayloads \o LongDocumentPayloads

LongDocument == (Len(StoredPayloads) + 1)..Len(Payloads)

Scores ==
  [ v \in Vectors |->
      IF v = "v1" THEN << 9, 7, 5, 3, 8 >> ELSE << 2, 6, 4, 10, 9 >> ]

UserCondition(u) == [key |-> "user_id", match |-> {u}]
DocumentCondition(ids) ==
  [key |-> "document_id", match |-> { ids[i] : i \in 1..Len(ids) }]

Truthy(ids) == ~ids.none /\ Len(ids.list) > 0

\* Filter(must = conditions): every condition holds of the payload
MatchesFilter(id, query_filter) ==
  \A c \in 1..Len(query_filter) :
     Payloads[id][query_filter[c].key] \in query_filter[c].match

RECURSIVE ByScore(_, _)
ByScore(ids, v) ==
  IF ids = {} THEN << >>
  ELSE LET best == CHOOSE i \in ids :
                     \A j \in ids : \/ Scores[v][i] > Scores[v][j]
                                    \/ (Scores[v][i] = Scores[v][j] /\ i <= j)
       IN  << [id |-> best, score |-> Scores[v][best]] >>
             \o ByScore(ids \ {best}, v)

Prefix(seq, n) == SubSeq(seq, 1, IF Len(seq) < n THEN Len(seq) ELSE n)

\* client.search: the points of the collection that pass the filter and
\* score at least score_threshold, best first, at most limit of them
search(points, v, query_filter, limit, threshold) ==
  Prefix(ByScore({ id \in points : /\ MatchesFilter(id, query_filter)
                                   /\ Scores[v][id] >= threshold }, v),
         limit)

\* the ids of a set of points in ascending order
ById(ids) ==
  SelectSeq([ i \in 1..Len(Payloads) |-> i ], LAMBDA i : i \in ids)

\* client.scroll: the points that pass the filter, in id order, at most limit
scroll(points, scroll_filter, limit) ==
  Prefix(ById({ id \in points : MatchesFilter(id, scroll_filter) }), limit)

\* a client.search call: its arguments, and whether it returned (with which
\* hits) or raised
SearchCall(v, query_filter, limit, threshold, returned, hits) ==
  [query_vector |-> v, query_filter |-> query_filter, limit |-> limit,
   score_threshold |-> threshold, ok |-> returned, hits |-> hits]

\* a client.scroll call: its arguments, and whether it returned or raised
ScanCall(scroll_filter, limit, returned, ids) ==
  [scroll_filter |-> scroll_filter, limit |-> limit, ok |-> returned,
   ids |-> ids]

\* the second result set appended to the first
fallback_results_merged(first_results, second_results) ==
  first_results \o second_results

\* "search_results = ..." of the fallback branch: the second result set
\* takes the place of the first
fallback_results(first_results, second_results) == second_results

\* the except clause returning what the first search found
retrieval_error_keeps_results(results_so_far) ==
  [ i \in 1..Len(results_so_far) |->
      [chunk_id |-> results_so_far[i].id, score |-> results_so_far[i].score] ]

\* the except clause of _retrieve_contexts
retrieval_error(results_so_far) == << >>

Context(id, score) ==
  [chunk_id |-> id, score |-> score,
   chunk_text |-> Payloads[id].chunk_text,
   chunk_index |-> Payloads[id].chunk_index,
   document_id |-> Payloads[id].document_id,
   file_name |-> Payloads[id].file_name]

\* "Format results" of _retrieve_contexts
FormatResults(hits) ==
  [ i \in 1..Len(hits) |-> Context(hits[i].id, hits[i].score) ]

ScanScore == 10

\* the loop of _retrieve_full_document: every chunk gets score 1.0
FormatScan(ids) == [ i \in 1..Len(ids) |-> Context(ids[i], ScanScore) ]

\* the contexts left in the order of the scroll
SortByChunkIndex_scroll_order(ctxs) == ctxs

\* list.sort(key = chunk_index): stable, ascending
SortByChunkIndex(ctxs) ==
  LET n == Len(ctxs)
      before(j, i) ==
        \/ ctxs[j].chunk_index < ctxs[i].chunk_index
        \/ (ctxs[j].chunk_index = ctxs[i].chunk_index /\ j < i)
      place == [ i \in 1..n |->
                  Cardinality({ j \in 1..n : before(j, i) }) + 1 ]
  IN  [ r \in 1..n |-> ctxs[CHOOSE i \in 1..n : place[i] = r] ]

Max(a, b) == IF a >= b THEN a ELSE b

\* the test with a threshold at the floor also searching again
fallback_needed_at_floor(n_results, k, threshold) ==
  /\ n_results < Max(2, k \div 2)
  /\ settings.RAG_ENABLE_FALLBACK
  /\ threshold >= settings.RAG_MIN_SCORE_THRESHOLD

\* the test without the comparison of the threshold with the floor
fallback_needed_whatever_threshold(n_results, k, threshold) ==
  /\ n_results < Max(2, k \div 2)
  /\ settings.RAG_ENABLE_FALLBACK

\* the test of _retrieve_contexts that decides the second search
fallback_needed(n_results, k, threshold) ==
  /\ n_results < Max(2, k \div 2)
  /\ settings.RAG_ENABLE_FALLBACK
  /\ threshold > settings.RAG_MIN_SCORE_THRESHOLD

\* the filter with the user condition only when no document is given
retrieve_filter_documents_replace_user(u, ids) ==
  IF Truthy(ids)
  THEN << DocumentCondition(ids.list) >>
  ELSE << UserCondition(u) >>

\* filter_conditions of _retrieve_contexts
retrieve_filter(u, ids) ==
  IF Truthy(ids)
  THEN << UserCondition(u), DocumentCondition(ids.list) >>
  ELSE << UserCondition(u) >>

\* filter_conditions of _retrieve_full_document
scan_filter(u, ids) == << UserCondition(u), DocumentCondition(ids.list) >>

\* ------------------------------------------------------------------------
\* services/orchestrator.py: the canned answers
\* ------------------------------------------------------------------------
\* orchestrator.py line 209
NO_RELEVANT_INFORMATION ==
  << "T","o^","i"," ","k","h","o^","n","g"," ","t","i!","m"," ","t","h",
     "a^'","y"," ","t","h","o^","n","g"," ","t","i","n"," ","p","h","u!",
     " ","h","o+.","p"," ","t","r","o","n","g"," ","t","a!","i"," ","l",
     "i","e.^","u"," ","c","u?","a"," ","b","a.","n","."," ","V","u","i",
     " ","l","o!","n","g"," ","t","h","u+?"," ","c","a^","u"," ","h",
     "o?","i"," ","k","h","a'","c"," ","h","o","a.(","c"," ","u","p","l",
     "o","a","d"," ","t","h","e^","m"," ","t","a!","i"," ","l","i","e.^",
     "u","." >>

\* orchestrator.py line 285
CHOOSE_DOCUMENT ==
  << "V","u","i"," ","l","o!","n","g"," ","c","h","o.","n"," ","t","a!",
     "i"," ","l","i","e.^","u"," ","c","a^!","n"," ","t","o'","m"," ",
     "t","a('","t","." >>

\* orchestrator.py line 299
NO_DOCUMENT_CONTENT ==
  << "K","h","o^","n","g"," ","t","i!","m"," ","t","h","a^'","y"," ","n",
     "o.^","i"," ","d","u","n","g"," ","t","a!","i"," ","l","i","e.^",
     "u","." >>

\* orchestrator.py line 384
NO_CONTENT_FOR_QUESTIONS ==
  << "K","h","o^","n","g"," ","t","i!","m"," ","t","h","a^'","y"," ","n",
     "o.^","i"," ","d","u","n","g"," ","dd","e^?"," ","t","a.","o"," ",
     "c","a^","u"," ","h","o?","i","."," ","V","u","i"," ","l","o!","n",
     "g"," ","u","p","l","o","a","d"," ","t","a!","i"," ","l","i","e.^",
     "u","." >>

\* ------------------------------------------------------------------------
\* core/config.py defaults and the inputs of a request
\* ------------------------------------------------------------------------
RAG_TOP_K == 5
RAG_SCORE_THRESHOLD == 5
RAG_MIN_SCORE_THRESHOLD == 3
QUESTION_GENERATION_THRESHOLD == 3
SUMMARY_CONTEXT_SAMPLE == 10
MaxStoreChanges == 1

SettingsOptions ==
  [ RAG_ENABLE_FALLBACK : BOOLEAN,
    RAG_MIN_SCORE_THRESHOLD : { RAG_MIN_SCORE_THRESHOLD, RAG_SCORE_THRESHOLD } ]

TopKs == { 1, RAG_TOP_K, MaxTopK }
ScoreThresholds == { RAG_MIN_SCORE_THRESHOLD, RAG_SCORE_THRESHOLD }

NoDocumentIds == [none |-> TRUE, list |-> << >>]
DocumentIds(ids) == [none |-> FALSE, list |-> ids]
DocumentIdOptions ==
  { NoDocumentIds } \cup { DocumentIds(SubSeq(AllDocs, 1, n)) : n \in 0..MaxDocs }

RequestQuestions ==
  { F_TomTat, F_quiz, F_theoTaiLieu, F_baiTap, F_code, F_pad50 \o F_pad50,
    F_theoTaiLieu \o F_SoSanh,
    F_theoTaiLieu \o F_qmark \o F_qmark,
    F_theoTaiLieu \o F_pad50 \o F_pad51 }

RequestUsers == { "u1" }

StoreSnapshots == { {}, {1, 5}, PointIds }

NoArgs == [top_k |-> 0, score_threshold |-> 0]

\* ------------------------------------------------------------------------
\* State after construction, one request received
\* ------------------------------------------------------------------------
Idle ==
  /\ has_documents = FALSE
  /\ document_count = 0
  /\ intent = None
  /\ is_complex = None
  /\ store_changes = 0
  /\ query_vector = None
  /\ search_results = << >>
  /\ contexts = << >>
  /\ embed_calls = 0
  /\ search_calls = << >>
  /\ scan_calls = << >>
  /\ model_calls = << >>
  /\ gen_calls = << >>
  /\ selected = << >>
  /\ prompt_contexts = << >>
  /\ result = << >>
  /\ error = << >>
  /\ parked = << >>
  /\ temperature = << >>
  /\ request = << >>

Init ==
  /\ pc = "received"
  /\ question \in RequestQuestions
  /\ gemini_api_key \in BOOLEAN
  /\ groq_client \in BOOLEAN
  /\ settings \in SettingsOptions
  /\ user_id \in RequestUsers
  /\ document_ids \in DocumentIdOptions
  /\ top_k \in TopKs
  /\ score_threshold \in ScoreThresholds
  /\ store \in StoreSnapshots
  /\ retrieve_args = NoArgs
  /\ Idle

\* ------------------------------------------------------------------------
\* process_query and its handlers, one action per stretch of code between
\* two calls to a collaborator (embedding, vector store, provider)
\* ------------------------------------------------------------------------
HandlerError(i) ==
  CASE i = "rag_query" -> "RAG processing failed"
    [] i = "summarization" -> "Summarization failed"
    [] i = "question_generation" -> "Question generation failed"
    [] i = "homework_solver" -> "Homework solving failed"
    [] OTHER -> "All models failed"

\* the handler's exception and the wrapper raised as two errors
Raise_not_aggregated(i, cause) ==
  << [chain |-> << HandlerError(i) >>, cause |-> cause],
     [chain |-> << "Query processing failed" >>, cause |-> cause] >>

\* the exception process_query raises: its own wrapper, the wrapper of the
\* handler, and the message of the exception the handler caught
Raise(i, cause) ==
  << [chain |-> << "Query processing failed", HandlerError(i) >>,
      cause |-> cause] >>

\* the dict a handler returns plus the metadata process_query adds
Result(answer, ctxs, model, tokens) ==
  << [answer |-> answer, contexts |-> ctxs, model |-> model,
      tokens_used |-> tokens, intent |-> intent, user_id |-> user_id] >>

\* the answer given without a generation call, labelled with a provider
Canned_labelled_gemini(answer) ==
  Result(answer, << >>, << "gemini-flash" >>, 0)

\* the dict returned when a handler answers without a generation call
Canned(answer) == Result(answer, << >>, << "none" >>, 0)

RECURSIVE str(_)
str(n) ==
  LET digits == << "0","1","2","3","4","5","6","7","8","9" >> IN
  IF n < 10 THEN << digits[n + 1] >>
  ELSE str(n \div 10) \o << digits[(n % 10) + 1] >>

RECURSIVE join(_, _)
join(sep, parts) ==
  IF parts = << >> THEN << >>
  ELSE IF Len(parts) = 1 THEN parts[1]
  ELSE LET half == Len(parts) \div 2 IN
       join(sep, SubSeq(parts, 1, half)) \o sep
         \o join(sep, SubSeq(parts, half + 1, Len(parts)))

\* context_str of handle_rag_query
rag_context_str(ctxs) ==
  join(<<"\n","\n">>,
       [ i \in 1..Len(ctxs) |->
           <<"[","T","a!","i"," ","l","i","e.^","u"," ">> \o str(i)
             \o <<" ","-"," ">> \o ctxs[i].file_name \o <<"]","\n">>
             \o ctxs[i].chunk_text ])

\* full_text of handle_summarization
full_text(ctxs) ==
  join(<<"\n","\n">>,
       [ i \in 1..Len(ctxs) |->
           <<"[","P","h","a^!","n"," ">> \o str(i) \o <<"]","\n">>
             \o ctxs[i].chunk_text ])

\* context_str of handle_question_generation
qg_context_str(ctxs) ==
  join(<<"\n","\n">>, [ i \in 1..Len(ctxs) |-> ctxs[i].chunk_text ])

\* the first argument of _estimate_tokens in each handler
estimate_input(i, ctxs) ==
  CASE i = "rag_query" -> rag_context_str(ctxs) \o question
    [] i = "summarization" -> full_text(ctxs)
    [] i = "question_generation" -> qg_context_str(ctxs) \o question
    [] OTHER -> question

\* every handler returning all the contexts of its prompt
returned_contexts_whole(i, ctxs) ==
  CASE i \in {"rag_query", "summarization", "question_generation"} -> ctxs
    [] OTHER -> << >>

\* the "contexts" entry of the dict a handler returns after generating
returned_contexts(i, ctxs) ==
  CASE i = "summarization" -> Prefix(ctxs, SUMMARY_CONTEXT_SAMPLE)
    [] i \in {"rag_query", "question_generation"} -> ctxs
    [] OTHER -> << >>

Generated(answer, model) ==
  Result(answer, returned_contexts(intent, prompt_contexts), model,
         _estimate_tokens(estimate_input(intent, prompt_contexts), answer))

DirectIntents == { "direct_chat", "code_help" }

\* process_query, step 1: classify the intent
Classify ==
  /\ pc = "received"
  /\ has_documents' = Truthy(document_ids)
  /\ document_count' = (IF Truthy(document_ids) THEN Len(document_ids.list) ELSE 0)
  /\ intent' = classify(question, has_documents', document_count')
  /\ pc' = "classified"
  /\ UNCHANGED << parked, question, is_complex, configVars, requestVars, store,
                  store_changes, retrievalVars, generationVars, outcomeVars >>

\* handle_direct_chat up to its generate_text call; when get_model raises,
\* the except clause runs _fallback_chat, whose own get_model call decides
HandleDirectChat ==
  /\ pc = "classified"
  /\ intent \notin { "rag_query", "summarization", "question_generation",
                     "homework_solver" }
  /\ LET m == get_model("direct_chat", "low", None)
         call == ModelCall("direct_chat", "low", None)
     IN  IF m.ok
         THEN /\ model_calls' = Append(model_calls, call)
              /\ selected' = << m >>
              /\ pc' = "generate"
              /\ error' = error
         ELSE LET m2 == get_model("direct_chat", "low", None) IN
              /\ model_calls' = model_calls \o << call, call >>
              /\ IF m2.ok
                 THEN /\ selected' = << m2 >>
                      /\ pc' = "fallback_chat"
                      /\ error' = error
                 ELSE /\ selected' = selected
                      /\ pc' = "failed"
                      /\ error' = Raise(intent, m2.error)
  /\ UNCHANGED << parked, question, has_documents, document_count, intent, is_complex,
                  configVars, requestVars, store, store_changes,
                  retrievalVars, gen_calls, prompt_contexts, result >>

\* handle_rag_query up to the embedding call of _retrieve_contexts
HandleRagQuery ==
  /\ pc = "classified"
  /\ intent = "rag_query"
  /\ retrieve_args' = [top_k |-> top_k, score_threshold |-> score_threshold]
  /\ pc' = "embed"
  /\ UNCHANGED << parked, question, has_documents, document_count, intent, is_complex,
                  configVars, requestVars, store, store_changes,
                  query_vector, search_results, contexts, embed_calls,
                  search_calls, scan_calls, generationVars, outcomeVars >>

\* handle_question_generation passing the request's threshold on
HandleQuestionGeneration_request_threshold ==
  /\ pc = "classified"
  /\ intent = "question_generation"
  /\ retrieve_args' = [top_k |-> top_k, score_threshold |-> score_threshold]
  /\ pc' = "embed"
  /\ UNCHANGED << parked, question, has_documents, document_count, intent,
                  is_complex, configVars, requestVars, store, store_changes,
                  query_vector, search_results, contexts, embed_calls,
                  search_calls, scan_calls, generationVars, outcomeVars >>

\* handle_question_generation up to the embedding call
HandleQuestionGeneration ==
  /\ pc = "classified"
  /\ intent = "question_generation"
  /\ retrieve_args' = [top_k |-> top_k,
                       score_threshold |-> QUESTION_GENERATION_THRESHOLD]
  /\ pc' = "embed"
  /\ UNCHANGED << parked, question, has_documents, document_count, intent, is_complex,
                  configVars, requestVars, store, store_changes,
                  query_vector, search_results, contexts, embed_calls,
                  search_calls, scan_calls, generationVars, outcomeVars >>

\* handle_summarization up to the scroll call of _retrieve_full_document
HandleSummarization ==
  /\ pc = "classified"
  /\ intent = "summarization"
  /\ IF ~Truthy(document_ids)
     THEN /\ result' = Canned(CHOOSE_DOCUMENT)
          /\ pc' = "done"
     ELSE /\ result' = result
          /\ pc' = "scan"
  /\ UNCHANGED << parked, question, has_documents, document_count, intent, is_complex,
                  configVars, requestVars, store, store_changes,
                  retrievalVars, generationVars, error >>

\* a homework request sent through the retrieval of handle_rag_query
HandleHomework_through_retrieval ==
  /\ pc = "classified"
  /\ intent = "homework_solver"
  /\ retrieve_args' = [top_k |-> top_k, score_threshold |-> score_threshold]
  /\ pc' = "embed"
  /\ UNCHANGED << parked, question, has_documents, document_count, intent,
                  is_complex, configVars, requestVars, store, store_changes,
                  query_vector, search_results, contexts, embed_calls,
                  search_calls, scan_calls, generationVars, outcomeVars >>

\* handle_homework up to its generation call
HandleHomework ==
  /\ pc = "classified"
  /\ intent = "homework_solver"
  /\ LET m == get_model("homework_solver", "high", None) IN
     /\ model_calls' =
          Append(model_calls, ModelCall("homework_solver", "high", None))
     /\ IF m.ok
        THEN /\ selected' = << m >>
             /\ pc' = "generate"
             /\ error' = error
        ELSE /\ selected' = selected
             /\ pc' = "failed"
             /\ error' = Raise(intent, m.error)
  /\ UNCHANGED << parked, question, has_documents, document_count, intent, is_complex,
                  configVars, requestVars, store, store_changes,
                  retrievalVars, gen_calls, prompt_contexts, result >>

\* _retrieve_contexts: embedding_service.embed_query returns a vector or
\* raises (the except clause returns [])
EmbedQuery ==
  /\ pc = "embed"
  /\ embed_calls' = embed_calls + 1
  /\ \/ \E v \in Vectors :
          /\ query_vector' = v
          /\ pc' = "search"
          /\ contexts' = contexts
     \/ /\ query_vector' = query_vector
        /\ contexts' = retrieval_error(search_results)
        /\ pc' = "retrieved"
  /\ UNCHANGED << parked, question, has_documents, document_count, intent, is_complex,
                  configVars, requestVars, store, store_changes,
                  retrieve_args, search_results, search_calls, scan_calls,
                  generationVars, outcomeVars >>

\* _retrieve_contexts: the first client.search call and the decision on
\* the second one
FirstSearch ==
  /\ pc = "search"
  /\ LET f == retrieve_filter(user_id, document_ids)
         k == retrieve_args.top_k
         t == retrieve_args.score_threshold
         hits == search(store, query_vector, f, k, t)
     IN  \/ /\ search_calls' =
                 Append(search_calls, SearchCall(query_vector, f, k, t, TRUE, hits))
            /\ search_results' = hits
            /\ IF fallback_needed(Len(hits), k, t)
               THEN /\ pc' = "search_fallback"
                    /\ contexts' = contexts
               ELSE /\ pc' = "retrieved"
                    /\ contexts' = FormatResults(hits)
         \/ /\ search_calls' =
                 Append(search_calls, SearchCall(query_vector, f, k, t, FALSE, << >>))
            /\ search_results' = search_results
            /\ contexts' = retrieval_error(search_results)
            /\ pc' = "retrieved"
  /\ UNCHANGED << parked, question, has_documents, document_count, intent, is_complex,
                  configVars, requestVars, store, store_changes,
                  retrieve_args, query_vector, embed_calls, scan_calls,
                  generationVars, outcomeVars >>

\* _retrieve_contexts: the second client.search call, at the floor
FallbackSearch ==
  /\ pc = "search_fallback"
  /\ LET f == retrieve_filter(user_id, document_ids)
         k == retrieve_args.top_k
         min_threshold == settings.RAG_MIN_SCORE_THRESHOLD
         hits == search(store, query_vector, f, k, min_threshold)
     IN  \/ /\ search_calls' =
                 Append(search_calls,
                        SearchCall(query_vector, f, k, min_threshold, TRUE, hits))
            /\ search_results' = fallback_results(search_results, hits)
            /\ contexts' = FormatResults(search_results')
         \/ /\ search_calls' =
                 Append(search_calls,
                        SearchCall(query_vector, f, k, min_threshold, FALSE, << >>))
            /\ search_results' = search_results
            /\ contexts' = retrieval_error(search_results)
  /\ pc' = "retrieved"
  /\ UNCHANGED << parked, question, has_documents, document_count, intent, is_complex,
                  configVars, requestVars, store, store_changes,
                  retrieve_args, query_vector, embed_calls, scan_calls,
                  generationVars, outcomeVars >>

\* _retrieve_full_document: the client.scroll call, the formatting and the
\* sort (the except clause returns [])
ScanDocument ==
  /\ pc = "scan"
  /\ LET f == scan_filter(user_id, document_ids)
         ids == scroll(store, f, ScrollLimit)
     IN  \/ /\ scan_calls' = Append(scan_calls, ScanCall(f, ScrollLimit, TRUE, ids))
            /\ contexts' = SortByChunkIndex(FormatScan(ids))
         \/ /\ scan_calls' = Append(scan_calls, ScanCall(f, ScrollLimit, FALSE, << >>))
            /\ contexts' = << >>
  /\ pc' = "retrieved"
  /\ UNCHANGED << parked, question, has_documents, document_count, intent, is_complex,
                  configVars, requestVars, store, store_changes,
                  retrieve_args, query_vector, search_results, embed_calls,
                  search_calls, generationVars, outcomeVars >>

PointsOf(d) == { id \in PointIds : Payloads[id].document_id = d }

\* routers/document.py, running for another request between the two
\* searches: the vectors of a document are deleted
DeleteDocumentVectors ==
  /\ pc = "search_fallback"
  /\ store_changes < MaxStoreChanges
  /\ \E d \in { Payloads[id].document_id : id \in store } :
        store' = store \ PointsOf(d)
  /\ store_changes' = store_changes + 1
  /\ UNCHANGED << parked, classifierVars, configVars, requestVars, retrievalVars,
                  generationVars, outcomeVars >>

\* routers/document.py, running for another request between the two
\* searches: a document is processed and its chunks are upserted
ProcessDocument ==
  /\ pc = "search_fallback"
  /\ store_changes < MaxStoreChanges
  /\ \E d \in { Payloads[id].document_id : id \in PointIds \ store } :
        store' = store \cup PointsOf(d)
  /\ store_changes' = store_changes + 1
  /\ UNCHANGED << parked, classifierVars, configVars, requestVars, retrievalVars,
                  generationVars, outcomeVars >>

\* what a handler does with the model it asked for: go on to the
\* generation call, or let the ValueError reach process_query
SelectModel(task_type, complexity) ==
  LET m == get_model(task_type, complexity, None) IN
  /\ model_calls' = Append(model_calls, ModelCall(task_type, complexity, None))
  /\ IF m.ok
     THEN /\ selected' = << m >>
          /\ prompt_contexts' = contexts
          /\ pc' = "generate"
          /\ error' = error
     ELSE /\ selected' = selected
          /\ prompt_contexts' = prompt_contexts
          /\ pc' = "failed"
          /\ error' = Raise(intent, m.error)
  /\ result' = result

ReturnCanned(answer) ==
  /\ result' = Canned(answer)
  /\ pc' = "done"
  /\ UNCHANGED << model_calls, selected, prompt_contexts, error >>

\* handle_rag_query asking for its model before it looks at the contexts
RagQueryAnswer_model_first ==
  /\ pc = "retrieved"
  /\ intent = "rag_query"
  /\ is_complex' = is_complex_query(question)
  /\ SelectModel("rag_query", IF is_complex' THEN "high" ELSE "low")
  /\ UNCHANGED << parked, question, has_documents, document_count, intent,
                  configVars, requestVars, store, store_changes,
                  retrievalVars, gen_calls >>

\* handle_rag_query after _retrieve_contexts returned
RagQueryAnswer ==
  /\ pc = "retrieved"
  /\ intent = "rag_query"
  /\ IF contexts = << >>
     THEN /\ ReturnCanned(NO_RELEVANT_INFORMATION)
          /\ is_complex' = is_complex
     ELSE /\ is_complex' = is_complex_query(question)
          /\ SelectModel("rag_query", IF is_complex' THEN "high" ELSE "low")
  /\ UNCHANGED << parked, question, has_documents, document_count, intent,
                  configVars, requestVars, store, store_changes,
                  retrievalVars, gen_calls >>

\* handle_summarization after _retrieve_full_document returned
SummarizationAnswer ==
  /\ pc = "retrieved"
  /\ intent = "summarization"
  /\ IF contexts = << >>
     THEN ReturnCanned(NO_DOCUMENT_CONTENT)
     ELSE SelectModel("summarization", "high")
  /\ UNCHANGED << parked, question, has_documents, document_count, intent, is_complex,
                  configVars, requestVars, store, store_changes,
                  retrievalVars, gen_calls >>

\* handle_question_generation after _retrieve_contexts returned
QuestionGenerationAnswer ==
  /\ pc = "retrieved"
  /\ intent = "question_generation"
  /\ IF contexts = << >>
     THEN ReturnCanned(NO_CONTENT_FOR_QUESTIONS)
     ELSE SelectModel("question_generation", "high")
  /\ UNCHANGED << parked, question, has_documents, document_count, intent, is_complex,
                  configVars, requestVars, store, store_changes,
                  retrievalVars, gen_calls >>

\* the label without the provider that was rate-limited
used_model_fallback_only(fallback_provider, provider_name) ==
  << fallback_provider >>

\* used_model of _generate_with_fallback after the retry
used_model(fallback_provider, provider_name) ==
  << fallback_provider, " (fallback from ", provider_name, ")" >>

\* the first generate_text call of the request: in handle_direct_chat, or
\* in _generate_with_fallback for the other handlers, with what the except
\* clause around it does
Generate ==
  /\ pc = "generate"
  /\ \E o \in GenOutcomes :
       LET m == selected[1] IN
       /\ gen_calls' =
            Append(gen_calls, GenCall(m.provider_name, m.model_identifier, o))
       /\ IF o.ok
          THEN \* return answer, provider_name
               /\ result' = Generated(o.text, << m.provider_name >>)
               /\ pc' = "done"
               /\ UNCHANGED << model_calls, selected, error >>
          ELSE IF intent \in DirectIntents
          THEN \* handle_direct_chat: any exception leads to _fallback_chat
               LET m2 == get_model("direct_chat", "low", None) IN
               /\ model_calls' =
                    Append(model_calls, ModelCall("direct_chat", "low", None))
               /\ result' = result
               /\ IF m2.ok
                  THEN /\ selected' = << m2 >>
                       /\ pc' = "fallback_chat"
                       /\ error' = error
                  ELSE /\ selected' = selected
                       /\ pc' = "failed"
                       /\ error' = Raise(intent, m2.error)
          ELSE IF is_rate_limit(o.error)
          THEN \* _generate_with_fallback: get the Groq model and retry
               LET fb == get_model("general", "medium", "groq") IN
               /\ model_calls' =
                    Append(model_calls, ModelCall("general", "medium", "groq"))
               /\ result' = result
               /\ IF fb.ok
                  THEN /\ selected' = << m, fb >>
                       /\ pc' = "generate_fallback"
                       /\ error' = error
                  ELSE /\ selected' = selected
                       /\ pc' = "failed"
                       /\ error' = Raise(intent, fb.error)
          ELSE \* other errors, re-raise
               /\ pc' = "failed"
               /\ error' = Raise(intent, o.error)
               /\ UNCHANGED << model_calls, selected, result >>
  /\ UNCHANGED << parked, question, has_documents, document_count, intent, is_complex,
                  configVars, requestVars, store, store_changes,
                  retrievalVars, prompt_contexts >>

\* the retry that goes back to retrieval when it fails
GenerateFallback_retrieve_again ==
  /\ pc = "generate_fallback"
  /\ \E o \in GenOutcomes :
       LET m == selected[1]
           fb == selected[2]
       IN
       /\ gen_calls' =
            Append(gen_calls, GenCall(fb.provider_name, fb.model_identifier, o))
       /\ IF o.ok
          THEN /\ result' =
                    Generated(o.text,
                              << fb.provider_name, " (fallback from ",
                                 m.provider_name, ")" >>)
               /\ pc' = "done"
          ELSE /\ result' = result
               /\ pc' = "embed"
  /\ UNCHANGED << parked, question, has_documents, document_count, intent, is_complex,
                  configVars, requestVars, store, store_changes,
                  retrievalVars, model_calls, selected, prompt_contexts,
                  error >>

\* _generate_with_fallback: the retry with the model get_model returned
\* for force_provider = "groq"
GenerateFallback ==
  /\ pc = "generate_fallback"
  /\ \E o \in GenOutcomes :
       LET m == selected[1]
           fb == selected[2]
       IN
       /\ gen_calls' =
            Append(gen_calls, GenCall(fb.provider_name, fb.model_identifier, o))
       /\ IF o.ok
          THEN /\ result' =
                    Generated(o.text,
                              used_model(fb.provider_name, m.provider_name))
               /\ pc' = "done"
               /\ error' = error
          ELSE /\ result' = result
               /\ pc' = "failed"
               /\ error' = Raise(intent, o.error)
  /\ UNCHANGED << parked, question, has_documents, document_count, intent, is_complex,
                  configVars, requestVars, store, store_changes,
                  retrievalVars, model_calls, selected, prompt_contexts >>

\* _fallback_chat taking the provider out of the registry when it fails
FallbackChat_marks_provider_down ==
  /\ pc = "fallback_chat"
  /\ \E o \in GenOutcomes :
       LET m == selected[1] IN
       /\ gen_calls' =
            Append(gen_calls, GenCall(m.provider_name, m.model_identifier, o))
       /\ IF o.ok
          THEN /\ result' =
                    Generated(o.text, << m.provider_name, "-fallback" >>)
               /\ pc' = "done"
               /\ error' = error
               /\ gemini_api_key' = gemini_api_key
          ELSE /\ result' = result
               /\ pc' = "failed"
               /\ error' = Raise(intent, o.error)
               /\ gemini_api_key' = FALSE
  /\ UNCHANGED << parked, question, has_documents, document_count, intent,
                  is_complex, groq_client, settings, requestVars, store,
                  store_changes, retrievalVars, model_calls, selected,
                  prompt_contexts >>

\* _fallback_chat: its generate_text call
FallbackChat ==
  /\ pc = "fallback_chat"
  /\ \E o \in GenOutcomes :
       LET m == selected[1] IN
       /\ gen_calls' =
            Append(gen_calls, GenCall(m.provider_name, m.model_identifier, o))
       /\ IF o.ok
          THEN /\ result' =
                    Generated(o.text, << m.provider_name, "-fallback" >>)
               /\ pc' = "done"
               /\ error' = error
          ELSE /\ result' = result
               /\ pc' = "failed"
               /\ error' = Raise(intent, o.error)
  /\ UNCHANGED << parked, question, has_documents, document_count, intent, is_complex,
                  configVars, requestVars, store, store_changes,
                  retrievalVars, model_calls, selected, prompt_contexts >>

Next ==
  \/ Classify
  \/ HandleDirectChat
  \/ HandleRagQuery
  \/ HandleQuestionGeneration
  \/ HandleSummarization
  \/ HandleHomework
  \/ EmbedQuery
  \/ FirstSearch
  \/ FallbackSearch
  \/ ScanDocument
  \/ DeleteDocumentVectors
  \/ ProcessDocument
  \/ RagQueryAnswer
  \/ SummarizationAnswer
  \/ QuestionGenerationAnswer
  \/ Generate
  \/ GenerateFallback
  \/ FallbackChat

Spec == Init /\ [][Next]_vars

\* ------------------------------------------------------------------------
\* The retriever on its own: _retrieve_contexts called with every bounded
\* argument against every content of the collection
\* ------------------------------------------------------------------------
InitRetrieve ==
  /\ pc = "embed"
  /\ question = F_quiz
  /\ gemini_api_key = TRUE
  /\ groq_client = TRUE
  /\ settings \in SettingsOptions
  /\ user_id \in Users
  /\ document_ids \in DocumentIdOptions
  /\ top_k = RAG_TOP_K
  /\ score_threshold = RAG_SCORE_THRESHOLD
  /\ store \in SUBSET PointIds
  /\ retrieve_args \in [top_k : TopKs, score_threshold : ScoreThresholds]
  /\ Idle

NextRetrieve ==
  \/ EmbedQuery
  \/ FirstSearch
  \/ FallbackSearch
  \/ DeleteDocumentVectors
  \/ ProcessDocument

SpecRetrieve == InitRetrieve /\ [][NextRetrieve]_vars

\* ------------------------------------------------------------------------
\* The classifier on its own: every bounded input, then the two calls
\* ------------------------------------------------------------------------
InitClassify ==
  /\ pc = "call_classify"
  /\ question \in Questions
  /\ has_documents \in BOOLEAN
  /\ document_count \in {0, MaxDocs}
  /\ intent = None
  /\ is_complex = None
  /\ gemini_api_key = TRUE
  /\ groq_client = TRUE
  /\ settings = [RAG_ENABLE_FALLBACK |-> TRUE,
                 RAG_MIN_SCORE_THRESHOLD |-> RAG_MIN_SCORE_THRESHOLD]
  /\ user_id = "u1"
  /\ document_ids = NoDocumentIds
  /\ top_k = RAG_TOP_K
  /\ score_threshold = RAG_SCORE_THRESHOLD
  /\ store = {}
  /\ store_changes = 0
  /\ retrieve_args = NoArgs
  /\ query_vector = None
  /\ search_results = << >>
  /\ contexts = << >>
  /\ embed_calls = 0
  /\ search_calls = << >>
  /\ scan_calls = << >>
  /\ model_calls = << >>
  /\ gen_calls = << >>
  /\ selected = << >>
  /\ prompt_contexts = << >>
  /\ result = << >>
  /\ error = << >>
  /\ parked = << >>
  /\ temperature = << >>
  /\ request = << >>

ClassifyCall ==
  /\ pc = "call_classify"
  /\ intent' = classify(question, has_documents, document_count)
  /\ pc' = "call_is_complex_query"
  /\ UNCHANGED << parked, question, has_documents, document_count, is_complex,
                  configVars, requestVars, store, store_changes,
                  retrievalVars, generationVars, outcomeVars >>

IsComplexCall ==
  /\ pc = "call_is_complex_query"
  /\ is_complex' = is_complex_query(question)
  /\ pc' = "returned"
  /\ UNCHANGED << parked, question, has_documents, document_count, intent,
                  configVars, requestVars, store, store_changes,
                  retrievalVars, generationVars, outcomeVars >>

NextClassify == ClassifyCall \/ IsComplexCall

SpecClassify == InitClassify /\ [][NextClassify]_vars

\* ------------------------------------------------------------------------
\* The model manager on its own: get_model called with every task type,
\* complexity and forced provider under every provider configuration
\* ------------------------------------------------------------------------
MaxModelCalls == 2

TaskTypes == Intents \cup { "general" }
Complexities == { "low", "medium", "high" }
ForceProviders == { None, "gemini", "groq" }

InitGetModel ==
  /\ pc = "call_get_model"
  /\ question = F_quiz
  /\ gemini_api_key \in BOOLEAN
  /\ groq_client \in BOOLEAN
  /\ settings = [RAG_ENABLE_FALLBACK |-> TRUE,
                 RAG_MIN_SCORE_THRESHOLD |-> RAG_MIN_SCORE_THRESHOLD]
  /\ user_id = "u1"
  /\ document_ids = NoDocumentIds
  /\ top_k = RAG_TOP_K
  /\ score_threshold = RAG_SCORE_THRESHOLD
  /\ store = {}
  /\ retrieve_args = NoArgs
  /\ Idle

\* one call of get_model: the pair it returns is appended to selected, the
\* ValueError it raises ends the sequence of calls
GetModelCall ==
  /\ pc = "call_get_model"
  /\ Len(model_calls) < MaxModelCalls
  /\ \E task_type \in TaskTypes, complexity \in Complexities,
        force_provider \in ForceProviders :
        LET m == get_model(task_type, complexity, force_provider) IN
        /\ model_calls' =
             Append(model_calls, ModelCall(task_type, complexity, force_provider))
        /\ IF m.ok
           THEN /\ selected' = Append(selected, m)
                /\ UNCHANGED << pc, error >>
           ELSE /\ error' = << [chain |-> << >>, cause |-> m.error] >>
                /\ pc' = "raised"
                /\ selected' = selected
  /\ UNCHANGED << parked, question, has_documents, document_count, intent,
                  is_complex, configVars, requestVars, store, store_changes,
                  retrievalVars, gen_calls, prompt_contexts, result >>

NextGetModel == GetModelCall

SpecGetModel == InitGetModel /\ [][NextGetModel]_vars

\* ------------------------------------------------------------------------
\* The document scan on its own: _retrieve_full_document called for every
\* bounded scope against collections that hold up to one chunk more than a
\* scroll returns
\* ------------------------------------------------------------------------
ScanDocumentIds ==
  { DocumentIds(ids) :
      ids \in { <<"d1">>, <<"d1","d2">>, <<"d3">>, <<"d4">>, <<"d1","d4">>,
                <<"d2","d1","d3">> } }

ScanStores ==
  { PointIds, LongDocument, PointIds \cup LongDocument,
    LongDocument \ { Len(Payloads) }, {2, 3, 5} \cup LongDocument, {1, 4} }

InitScan ==
  /\ pc = "scan"
  /\ question = F_TomTat
  /\ gemini_api_key = TRUE
  /\ groq_client = TRUE
  /\ settings = [RAG_ENABLE_FALLBACK |-> TRUE,
                 RAG_MIN_SCORE_THRESHOLD |-> RAG_MIN_SCORE_THRESHOLD]
  /\ user_id \in Users
  /\ document_ids \in ScanDocumentIds
  /\ top_k = RAG_TOP_K
  /\ score_threshold = RAG_SCORE_THRESHOLD
  /\ store \in ScanStores
  /\ retrieve_args = NoArgs
  /\ Idle

NextScan == ScanDocument

SpecScan == InitScan /\ [][NextScan]_vars

\* ------------------------------------------------------------------------
\* Requests that retrieve and then generate, over collections that hold a
\* document longer than one scroll page
\* ------------------------------------------------------------------------
AnswerDocumentIds ==
  { DocumentIds(ids) : ids \in { <<"d1">>, <<"d1","d2">> } }

InitAnswer ==
  /\ pc = "received"
  /\ gemini_api_key = TRUE
  /\ groq_client \in BOOLEAN
  /\ settings = [RAG_ENABLE_FALLBACK |-> TRUE,
                 RAG_MIN_SCORE_THRESHOLD |-> RAG_MIN_SCORE_THRESHOLD]
  /\ user_id = "u1"
  /\ top_k = RAG_TOP_K
  /\ score_threshold = RAG_SCORE_THRESHOLD
  /\ \/ /\ question = F_TomTat
        /\ document_ids \in ScanDocumentIds
        /\ store \in ScanStores
     \/ /\ question \in { F_theoTaiLieu, F_quiz }
        /\ document_ids \in AnswerDocumentIds
        /\ store = PointIds
  /\ retrieve_args = NoArgs
  /\ Idle

NextAnswer ==
  \/ Classify
  \/ HandleRagQuery
  \/ HandleQuestionGeneration
  \/ HandleSummarization
  \/ EmbedQuery
  \/ FirstSearch
  \/ FallbackSearch
  \/ ScanDocument
  \/ RagQueryAnswer
  \/ SummarizationAnswer
  \/ QuestionGenerationAnswer
  \/ Generate
  \/ GenerateFallback

SpecAnswer == InitAnswer /\ [][NextAnswer]_vars

\* ------------------------------------------------------------------------
\* RAGService.query_with_orchestrator: the requests that come through the
\* service, whose top_k, score_threshold and temperature may be left out
\* ------------------------------------------------------------------------
\* Python's "x or default" for an optional number: None and 0 are falsy
or_default(x, default) == IF x # << >> /\ x[1] # 0 THEN x[1] ELSE default

QueryArguments ==
  [top_k : { << >>, << 1 >>, << RAG_TOP_K >>, << MaxTopK >> },
   score_threshold : { << >>, << 0 >>, << RAG_MIN_SCORE_THRESHOLD >>,
                       << RAG_SCORE_THRESHOLD >>, << 10 >> },
   temperature : { << >>, << 0 >>, << 3 >> }]

InitQuery ==
  /\ pc = "query"
  /\ question = F_theoTaiLieu
  /\ gemini_api_key = TRUE
  /\ groq_client \in BOOLEAN
  /\ settings = [RAG_ENABLE_FALLBACK |-> TRUE,
                 RAG_MIN_SCORE_THRESHOLD |-> RAG_MIN_SCORE_THRESHOLD]
  /\ user_id = "u1"
  /\ document_ids = DocumentIds(<< "d1" >>)
  /\ \E arguments \in QueryArguments : request = << arguments >>
  /\ temperature = << >>
  /\ top_k = 0
  /\ score_threshold = 0
  /\ store = PointIds
  /\ retrieve_args = NoArgs
  /\ has_documents = FALSE
  /\ document_count = 0
  /\ intent = None
  /\ is_complex = None
  /\ store_changes = 0
  /\ query_vector = None
  /\ search_results = << >>
  /\ contexts = << >>
  /\ embed_calls = 0
  /\ search_calls = << >>
  /\ scan_calls = << >>
  /\ model_calls = << >>
  /\ gen_calls = << >>
  /\ selected = << >>
  /\ prompt_contexts = << >>
  /\ result = << >>
  /\ error = << >>
  /\ parked = << >>

\* query_with_orchestrator up to its call of process_query
QueryWithOrchestrator ==
  /\ pc = "query"
  /\ top_k' = or_default(request[1].top_k, RAG_TOP_K)
  /\ score_threshold' =
       or_default(request[1].score_threshold, RAG_SCORE_THRESHOLD)
  /\ temperature' = request[1].temperature
  /\ pc' = "received"
  /\ UNCHANGED << parked, question, has_documents, document_count, intent,
                  is_complex, configVars, user_id, document_ids, request,
                  store, store_changes, retrievalVars, generationVars,
                  outcomeVars >>

\* query_with_orchestrator after process_query: the result is returned as
\* it is, an exception is wrapped once more
QueryReturn ==
  /\ pc \in { "done", "failed" }
  /\ request # << >>
  /\ IF pc = "done"
     THEN /\ pc' = "returned"
          /\ error' = error
     ELSE /\ pc' = "raised"
          /\ error' = << [chain |-> << "Orchestrator query error" >>
                                      \o error[1].chain,
                          cause |-> error[1].cause] >>
  /\ UNCHANGED << parked, question, has_documents, document_count, intent,
                  is_complex, configVars, requestVars, store, store_changes,
                  retrievalVars, generationVars, result >>

NextQuery ==
  \/ QueryWithOrchestrator
  \/ Classify
  \/ HandleRagQuery
  \/ EmbedQuery
  \/ FirstSearch
  \/ FallbackSearch
  \/ RagQueryAnswer
  \/ Generate
  \/ GenerateFallback
  \/ QueryReturn

SpecQuery == InitQuery /\ [][NextQuery]_vars

\* ------------------------------------------------------------------------
\* generate_text over the responses a provider can send. An optional JSON
\* key or attribute is << >> when it is missing or None and << value >>
\* when it is there.
\* ------------------------------------------------------------------------
MaxGenerateCalls == 2

Part(text) == [text |-> text]
Candidate(content) == [content |-> content]
Content(parts) == [parts |-> parts]

\* the body of the answer to the generateContent request
GeminiData(candidates) == [status |-> 200, candidates |-> candidates]

G_text == GeminiData(<< << Candidate(<< Content(<< << Part(<< Text_A >>) >> >>) >>) >> >>)
G_two_parts ==
  GeminiData(<< << Candidate(<< Content(<< << Part(<< Text_A >>),
                                              Part(<< Text_B >>) >> >>) >>) >> >>)
G_no_candidates_key == GeminiData(<< >>)
G_no_candidates == GeminiData(<< << >> >>)
G_no_content == GeminiData(<< << Candidate(<< >>) >> >>)
G_no_parts == GeminiData(<< << Candidate(<< Content(<< >>) >>) >> >>)
G_empty_parts == GeminiData(<< << Candidate(<< Content(<< << >> >>) >>) >> >>)
G_part_without_text ==
  GeminiData(<< << Candidate(<< Content(<< << Part(<< >>) >> >>) >>) >> >>)
G_rate_limited == [status |-> 429, candidates |-> << >>]

GeminiResponses ==
  { G_text, G_two_parts, G_no_candidates_key, G_no_candidates, G_no_content,
    G_no_parts, G_empty_parts, G_part_without_text, G_rate_limited }

\* the ChatCompletion object of the Groq client, or the exception of create
Choice(content) == [message |-> [content |-> content]]
GroqCompletion(choices) == [raised |-> FALSE, choices |-> choices]

Q_text == GroqCompletion(<< Choice(<< Text_A >>) >>)
Q_no_choices == GroqCompletion(<< >>)
Q_no_content == GroqCompletion(<< Choice(<< >>) >>)
Q_rate_limited == [raised |-> TRUE, choices |-> << >>]

GroqResponses == { Q_text, Q_no_choices, Q_no_content, Q_rate_limited }

\* what a call of generate_text does: it returns a value (<< >> is None)
\* or raises
Returns(value) == [raised |-> FALSE, value |-> value, error |-> "none"]
Raises(kind) == [raised |-> TRUE, value |-> << >>, error |-> kind]

\* generate_text, the branch of "gemini" in provider_name
generate_text_gemini(data) ==
  IF data.status # 200 THEN Raises("HTTPStatusError")
  ELSE IF Len(data.candidates) = 1 /\ Len(data.candidates[1]) > 0
  THEN LET candidate == data.candidates[1][1] IN
       IF Len(candidate.content) = 1 /\ Len(candidate.content[1].parts) = 1
       THEN LET parts == candidate.content[1].parts[1] IN
            IF Len(parts) = 0 THEN Raises("IndexError")
            ELSE IF Len(parts[1].text) = 0 THEN Raises("KeyError")
            ELSE Returns(parts[1].text)
       ELSE Raises("ValueError")
  ELSE Raises("ValueError")

\* generate_text, the branch of "groq" in provider_name
generate_text_groq(completion) ==
  IF completion.raised THEN Raises("APIStatusError")
  ELSE IF Len(completion.choices) = 0 THEN Raises("IndexError")
  ELSE Returns(completion.choices[1].message.content)

GenerateTextCalled(provider, response, outcome) ==
  [provider_name |-> provider, response |-> response, outcome |-> outcome]

InitGenerateText ==
  /\ pc = "call_generate_text"
  /\ question = F_quiz
  /\ gemini_api_key = TRUE
  /\ groq_client = TRUE
  /\ settings = [RAG_ENABLE_FALLBACK |-> TRUE,
                 RAG_MIN_SCORE_THRESHOLD |-> RAG_MIN_SCORE_THRESHOLD]
  /\ user_id = "u1"
  /\ document_ids = NoDocumentIds
  /\ top_k = RAG_TOP_K
  /\ score_threshold = RAG_SCORE_THRESHOLD
  /\ store = {}
  /\ retrieve_args = NoArgs
  /\ Idle

GenerateTextCall ==
  /\ pc = "call_generate_text"
  /\ Len(gen_calls) < MaxGenerateCalls
  /\ \/ \E data \in GeminiResponses :
          gen_calls' =
            Append(gen_calls,
                   GenerateTextCalled("gemini", data, generate_text_gemini(data)))
     \/ \E completion \in GroqResponses :
          gen_calls' =
            Append(gen_calls,
                   GenerateTextCalled("groq", completion,
                                      generate_text_groq(completion)))
     \/ gen_calls' =
          Append(gen_calls,
                 GenerateTextCalled("openai", << >>, Raises("ValueError")))
  /\ UNCHANGED << parked, classifierVars, configVars, requestVars, store,
                  store_changes, retrievalVars, model_calls, selected,
                  prompt_contexts, outcomeVars >>

NextGenerateText == GenerateTextCall

SpecGenerateText == InitGenerateText /\ [][NextGenerateText]_vars

\* ------------------------------------------------------------------------
\* Two requests in progress at once: process_query is a coroutine of the
\* one module-level orchestrator, and control can pass from one request to
\* the other between any two calls to a collaborator
\* ------------------------------------------------------------------------
\* what belongs to one call of process_query: its arguments and locals
Local ==
  [
    pc |-> pc, question |-> question, has_documents |-> has_documents,
    document_count |-> document_count, intent |-> intent,
    is_complex |-> is_complex, user_id |-> user_id,
    document_ids |-> document_ids, top_k |-> top_k,
    score_threshold |-> score_threshold, temperature |-> temperature,
    request |-> request, retrieve_args |-> retrieve_args,
    query_vector |-> query_vector, search_results |-> search_results,
    contexts |-> contexts, embed_calls |-> embed_calls,
    search_calls |-> search_calls, scan_calls |-> scan_calls,
    model_calls |-> model_calls, gen_calls |-> gen_calls,
    selected |-> selected, prompt_contexts |-> prompt_contexts,
    result |-> result, error |-> error ]

Resume(r) ==
  /\ pc' = r.pc
  /\ question' = r.question
  /\ has_documents' = r.has_documents
  /\ document_count' = r.document_count
  /\ intent' = r.intent
  /\ is_complex' = r.is_complex
  /\ user_id' = r.user_id
  /\ document_ids' = r.document_ids
  /\ top_k' = r.top_k
  /\ score_threshold' = r.score_threshold
  /\ temperature' = r.temperature
  /\ request' = r.request
  /\ retrieve_args' = r.retrieve_args
  /\ query_vector' = r.query_vector
  /\ search_results' = r.search_results
  /\ contexts' = r.contexts
  /\ embed_calls' = r.embed_calls
  /\ search_calls' = r.search_calls
  /\ scan_calls' = r.scan_calls
  /\ model_calls' = r.model_calls
  /\ gen_calls' = r.gen_calls
  /\ selected' = r.selected
  /\ prompt_contexts' = r.prompt_contexts
  /\ result' = r.result
  /\ error' = r.error

\* the arguments and locals of a call of process_query that has not begun
NewRequest(q, u, ids) ==
  [pc |-> "received", question |-> q, has_documents |-> FALSE,
   document_count |-> 0, intent |-> None, is_complex |-> None,
   user_id |-> u, document_ids |-> ids, top_k |-> RAG_TOP_K,
   score_threshold |-> RAG_SCORE_THRESHOLD, temperature |-> << >>,
   request |-> << >>, retrieve_args |-> NoArgs,
   query_vector |-> None, search_results |-> << >>, contexts |-> << >>,
   embed_calls |-> 0, search_calls |-> << >>, scan_calls |-> << >>,
   model_calls |-> << >>, gen_calls |-> << >>, selected |-> << >>,
   prompt_contexts |-> << >>, result |-> << >>, error |-> << >>]

ConcurrentRequests ==
  { NewRequest(F_theoTaiLieu, "u1", DocumentIds(<< "d1" >>)),
    NewRequest(F_baiTap, "u1", NoDocumentIds),
    NewRequest(F_TomTat, "u1", NoDocumentIds) }

InitConcurrent ==
  /\ gemini_api_key \in BOOLEAN
  /\ groq_client \in BOOLEAN
  /\ settings = [RAG_ENABLE_FALLBACK |-> TRUE,
                 RAG_MIN_SCORE_THRESHOLD |-> RAG_MIN_SCORE_THRESHOLD]
  /\ store = PointIds
  /\ store_changes = 0
  /\ \E first \in ConcurrentRequests, second \in ConcurrentRequests :
        /\ pc = first.pc
        /\ question = first.question
        /\ user_id = first.user_id
        /\ document_ids = first.document_ids
        /\ top_k = first.top_k
        /\ score_threshold = first.score_threshold
        /\ temperature = first.temperature
        /\ request = first.request
        /\ retrieve_args = first.retrieve_args
        /\ parked = << second >>
  /\ has_documents = FALSE
  /\ document_count = 0
  /\ intent = None
  /\ is_complex = None
  /\ query_vector = None
  /\ search_results = << >>
  /\ contexts = << >>
  /\ embed_calls = 0
  /\ search_calls = << >>
  /\ scan_calls = << >>
  /\ model_calls = << >>
  /\ gen_calls = << >>
  /\ selected = << >>
  /\ prompt_contexts = << >>
  /\ result = << >>
  /\ error = << >>

\* the event loop leaves the running request where it is and resumes the
\* other one
Switch ==
  /\ parked # << >>
  /\ parked[1].pc \notin { "done", "failed" }
  /\ Resume(parked[1])
  /\ parked' = << Local >>
  /\ UNCHANGED << gemini_api_key, groq_client, settings, store,
                  store_changes >>

NextConcurrent ==
  \/ Classify
  \/ HandleDirectChat
  \/ HandleRagQuery
  \/ HandleHomework
  \/ EmbedQuery
  \/ FirstSearch
  \/ FallbackSearch
  \/ RagQueryAnswer
  \/ Generate
  \/ GenerateFallback
  \/ FallbackChat
  \/ Switch

SpecConcurrent == InitConcurrent /\ [][NextConcurrent]_vars

\* ------------------------------------------------------------------------
\* Properties of the classifier
\* ------------------------------------------------------------------------
Classified == pc # "call_classify" /\ intent # None

MatchesSummarization ==
  _has_keywords(lower(question), summarization_keywords)
MatchesQuestionGeneration ==
  _has_keywords(lower(question), question_generation_keywords)
MatchesDocumentReference ==
  _has_keywords(lower(question), rag_query_keywords)
MatchesHomework ==
  _has_keywords(lower(question), homework_solver_keywords)
MatchesCode ==
  _has_keywords(lower(question), code_help_keywords)
MatchesFactual ==
  _has_keywords(lower(question), factual_patterns)

Rule1 == MatchesSummarization /\ has_documents
Rule2 == MatchesQuestionGeneration
Rule3 == MatchesDocumentReference
Rule4 == MatchesHomework
Rule5 == MatchesCode
Rule6 == has_documents /\ MatchesFactual
Rule7 == has_documents /\ document_count > 0

\* C8: classify always returns one of the six intents, namely the intent of
\* the first matching rule in the fixed order summarization (with
\* documents), question generation (direct_chat without documents),
\* document reference, homework, code, factual with documents, documents
\* present, else direct_chat; summarization keywords give summarization
\* exactly when has_documents holds.
C8_FirstMatchingRuleWins ==
  Classified =>
    /\ intent \in Intents
    /\ Rule1 => intent = "summarization"
    /\ (~Rule1 /\ Rule2) =>
          intent = (IF has_documents THEN "question_generation"
                                    ELSE "direct_chat")
    /\ (~Rule1 /\ ~Rule2 /\ Rule3) => intent = "rag_query"
    /\ (~Rule1 /\ ~Rule2 /\ ~Rule3 /\ Rule4) => intent = "homework_solver"
    /\ (~Rule1 /\ ~Rule2 /\ ~Rule3 /\ ~Rule4 /\ Rule5) => intent = "code_help"
    /\ (~Rule1 /\ ~Rule2 /\ ~Rule3 /\ ~Rule4 /\ ~Rule5 /\ Rule6) =>
          intent = "rag_query"
    /\ (~Rule1 /\ ~Rule2 /\ ~Rule3 /\ ~Rule4 /\ ~Rule5 /\ ~Rule6 /\ Rule7) =>
          intent = "rag_query"
    /\ (~Rule1 /\ ~Rule2 /\ ~Rule3 /\ ~Rule4 /\ ~Rule5 /\ ~Rule6 /\ ~Rule7) =>
          intent = "direct_chat"
    /\ (MatchesSummarization /\ ~has_documents) => intent # "summarization"

\* a question with homework and code keywords, without documents
C8_Witness ==
  /\ Classified
  /\ MatchesHomework /\ MatchesCode
  /\ ~has_documents
  /\ intent = "homework_solver"

\* C9 as stated: a question without document-reference keywords, classified
\* with has_documents = False, gives direct_chat.
C9_NoDocumentCueIsDirectChat ==
  (Classified /\ ~MatchesDocumentReference /\ ~has_documents)
    => intent = "direct_chat"

\* C9 amended: a question with no document-reference keyword, no homework
\* keyword and no code keyword, classified with has_documents = False,
\* gives direct_chat.
C9_NoCueNoHomeworkNoCodeIsDirectChat ==
  (Classified /\ ~MatchesDocumentReference /\ ~MatchesHomework
     /\ ~MatchesCode /\ ~has_documents)
    => intent = "direct_chat"

\* a question-generation question without documents degrades to direct_chat
C9_Witness ==
  /\ Classified
  /\ ~MatchesDocumentReference /\ ~MatchesHomework /\ ~MatchesCode
  /\ MatchesQuestionGeneration /\ ~has_documents
  /\ intent = "direct_chat"

\* ------------------------------------------------------------------------
\* Properties of generation with fallback
\* ------------------------------------------------------------------------
Ended == pc \in { "done", "failed" }

Mentions429(error_str) == Contains(error_str, <<"4","2","9">>)
MentionsTooManyRequests(error_str) ==
  Contains(error_str,
    <<"T","o","o"," ","M","a","n","y"," ","R","e","q","u","e","s","t","s">>)

\* the request went through _generate_with_fallback
UsedGenerateWithFallback ==
  Ended /\ intent \notin DirectIntents /\ Len(gen_calls) >= 1

\* C1: in _generate_with_fallback, a primary call that succeeds is the only
\* call and its text is returned under the primary provider's name; a
\* primary call that fails with a message containing "429" or "Too Many
\* Requests", followed by a fallback call that succeeds, gives the
\* fallback's text labelled "<fallback> (fallback from <primary>)" and no
\* error is raised.
C1_FallbackLabelAndNoReraise ==
  UsedGenerateWithFallback =>
    /\ gen_calls[1].outcome.ok =>
         /\ Len(gen_calls) = 1
         /\ pc = "done"
         /\ result[1].answer = gen_calls[1].outcome.text
         /\ result[1].model = << gen_calls[1].provider_name >>
    /\ ( /\ ~gen_calls[1].outcome.ok
         /\ \/ Mentions429(gen_calls[1].outcome.error)
            \/ MentionsTooManyRequests(gen_calls[1].outcome.error)
         /\ Len(gen_calls) = 2
         /\ gen_calls[2].outcome.ok ) =>
         /\ pc = "done"
         /\ error = << >>
         /\ result[1].answer = gen_calls[2].outcome.text
         /\ result[1].model =
              << gen_calls[2].provider_name, " (fallback from ",
                 gen_calls[1].provider_name, ")" >>

\* a rate-limited Gemini Pro call recovered by a Groq call
C1_Witness ==
  /\ UsedGenerateWithFallback
  /\ Len(gen_calls) = 2
  /\ gen_calls[1].outcome.error = E_TooManyRequests
  /\ gen_calls[1].provider_name = "gemini-pro"
  /\ gen_calls[2].outcome.ok
  /\ gen_calls[2].provider_name = "groq-llama"
  /\ pc = "done"

\* C2: for every intent a request makes at most two generation calls; a
\* rate-limited first call is followed by exactly one more call, which is
\* never retried whatever its error, and the request fails only if that
\* second call fails too.
C2_AtMostOneFallbackCall ==
  /\ Len(gen_calls) <= 2
  /\ ( /\ Ended
       /\ Len(gen_calls) >= 1
       /\ ~gen_calls[1].outcome.ok
       /\ gen_calls[1].outcome.error \in RateLimitErrors ) =>
       /\ Len(gen_calls) = 2
       /\ (pc = "failed") <=> ~gen_calls[2].outcome.ok
       /\ (pc = "failed") => error[1].cause = gen_calls[2].outcome.error

\* both calls rate-limited: the request fails after the second
C2_Witness ==
  /\ pc = "failed"
  /\ intent = "summarization"
  /\ Len(gen_calls) = 2
  /\ gen_calls[1].outcome.error \in RateLimitErrors
  /\ gen_calls[2].outcome.error \in RateLimitErrors

Returned == pc = "retrieved"

FewerThanNeeded(n, k) == n < (IF k \div 2 > 2 THEN k \div 2 ELSE 2)

\* C4: _retrieve_contexts issues a second search if and only if the first
\* search returned fewer than max(2, top_k // 2) hits, RAG_ENABLE_FALLBACK
\* is on and score_threshold is strictly above RAG_MIN_SCORE_THRESHOLD; the
\* second search has the query vector, filter and limit of the first and
\* the threshold RAG_MIN_SCORE_THRESHOLD.
C4_SecondSearchIffTooFewHits ==
  /\ (Returned /\ Len(search_calls) >= 1) =>
       /\ search_calls[1].limit = retrieve_args.top_k
       /\ search_calls[1].score_threshold = retrieve_args.score_threshold
       /\ (Len(search_calls) >= 2) <=>
            /\ search_calls[1].ok
            /\ FewerThanNeeded(Len(search_calls[1].hits), retrieve_args.top_k)
            /\ settings.RAG_ENABLE_FALLBACK
            /\ retrieve_args.score_threshold > settings.RAG_MIN_SCORE_THRESHOLD
  /\ Len(search_calls) >= 2 =>
       /\ search_calls[2].query_vector = search_calls[1].query_vector
       /\ search_calls[2].query_filter = search_calls[1].query_filter
       /\ search_calls[2].limit = search_calls[1].limit
       /\ search_calls[2].score_threshold = settings.RAG_MIN_SCORE_THRESHOLD

\* two hits for top_k = 6: enough for max(2, ...) but not for top_k // 2
C4_Witness ==
  /\ Returned
  /\ Len(search_calls) = 2
  /\ Len(search_calls[1].hits) = 2
  /\ retrieve_args.top_k = MaxTopK
  /\ search_calls[2].score_threshold < search_calls[1].score_threshold

SameHits(ctxs, hits) ==
  /\ Len(ctxs) = Len(hits)
  /\ \A i \in 1..Len(hits) :
        /\ ctxs[i].chunk_id = hits[i].id
        /\ ctxs[i].score = hits[i].score

\* C5: _retrieve_contexts issues at most two searches, and when the second
\* search was issued the returned list is made of the second search's hits
\* alone, also when these are still fewer than max(2, top_k // 2).
C5_FallbackReplacesFirstResults ==
  /\ Len(search_calls) <= 2
  /\ (Returned /\ Len(search_calls) = 2 /\ search_calls[2].ok) =>
       SameHits(contexts, search_calls[2].hits)

\* the second search still finds too few hits, and a hit of the first
\* search is not among them
C5_Witness ==
  /\ Returned
  /\ Len(search_calls) = 2
  /\ search_calls[2].ok
  /\ FewerThanNeeded(Len(search_calls[2].hits), retrieve_args.top_k)
  /\ \E i \in 1..Len(search_calls[1].hits) :
        \A j \in 1..Len(search_calls[2].hits) :
           search_calls[2].hits[j].id # search_calls[1].hits[i].id

EmbeddingFailed == embed_calls >= 1 /\ query_vector = None /\ pc # "embed"
SearchFailed == \E i \in 1..Len(search_calls) : ~search_calls[i].ok
ScanFailed == \E i \in 1..Len(scan_calls) : ~scan_calls[i].ok

NoContentAnswer ==
  CASE intent = "rag_query" -> NO_RELEVANT_INFORMATION
    [] intent = "summarization" -> NO_DOCUMENT_CONTENT
    [] intent = "question_generation" -> NO_CONTENT_FOR_QUESTIONS
    [] OTHER -> << >>

\* C6: when the embedding call, the first search, the fallback search or
\* the document scan fails, the retriever returns an empty list, also when
\* the first search had returned hits, and process_query ends with the
\* handler's fixed answer and without an error.
C6_RetrievalFailureIsEmptyResult ==
  (EmbeddingFailed \/ SearchFailed \/ ScanFailed) =>
    /\ contexts = << >>
    /\ error = << >>
    /\ pc \in { "retrieved", "done" }
    /\ pc = "done" =>
         /\ result[1].answer = NoContentAnswer
         /\ result[1].contexts = << >>
         /\ result[1].model = << "none" >>
         /\ gen_calls = << >>

\* the first search found something, the fallback search failed
C6_Witness ==
  /\ pc = "done"
  /\ Len(search_calls) = 2
  /\ search_calls[1].ok
  /\ search_calls[1].hits # << >>
  /\ ~search_calls[2].ok
  /\ result[1].contexts = << >>

\* C7: a rag_query request whose retrieval returns no context ends with the
\* fixed "no relevant information" answer, contexts [], model "none" and 0
\* tokens, with no model selection and no generation call.
C7_EmptyRetrievalIsCannedAnswer ==
  (intent = "rag_query" /\ contexts = << >>
     /\ pc \notin { "received", "classified", "embed", "search",
                    "search_fallback", "retrieved" }) =>
    /\ pc = "done"
    /\ error = << >>
    /\ result[1].answer = NO_RELEVANT_INFORMATION
    /\ result[1].contexts = << >>
    /\ result[1].model = << "none" >>
    /\ result[1].tokens_used = 0
    /\ model_calls = << >>
    /\ gen_calls = << >>

\* no provider is configured and the request still succeeds
C7_Witness ==
  /\ intent = "rag_query"
  /\ pc = "done"
  /\ contexts = << >>
  /\ ~gemini_api_key
  /\ ~groq_client
  /\ Len(search_calls) >= 1
  /\ search_calls[Len(search_calls)].ok

HasComplexKeyword(q) ==
  \E i \in 1..Len(complex_keywords) : Contains(lower(q), complex_keywords[i])

MoreThanOneQuestionMark(q) ==
  Cardinality({ i \in 1..Len(q) : q[i] = "?" }) > 1

\* C10: a rag_query request with contexts asks for its model once, with
\* complexity "high" exactly when the question has more than 100
\* characters, or one of the analysis keywords, or more than one "?", and
\* "low" otherwise; the intent is still rag_query afterwards and is the
\* one the result reports.
C10_ComplexityFromQuestion ==
  /\ (intent = "rag_query" /\ pc = "generate") =>
       /\ contexts # << >>
       /\ Len(model_calls) = 1
       /\ model_calls[1].task_type = "rag_query"
       /\ model_calls[1].complexity =
            (IF \/ Len(question) > 100
                \/ HasComplexKeyword(question)
                \/ MoreThanOneQuestionMark(question)
             THEN "high" ELSE "low")
  /\ (pc = "done" /\ Len(model_calls) >= 1
        /\ model_calls[1].task_type = "rag_query") =>
       /\ intent = "rag_query"
       /\ result[1].intent = "rag_query"

\* a long question without analysis keyword and with no "?"
C10_Witness ==
  /\ intent = "rag_query"
  /\ pc = "generate"
  /\ Len(question) > 100
  /\ ~HasComplexKeyword(question)
  /\ ~MoreThanOneQuestionMark(question)
  /\ Len(model_calls) = 1
  /\ model_calls[1].complexity = "high"

\* ------------------------------------------------------------------------
\* Properties of model selection
\* ------------------------------------------------------------------------
HighCapabilityTasks == { "summarization", "question_generation", "homework_solver" }

\* the calls of get_model that returned, with what they returned
ReturnedCalls == 1..Len(selected)

\* C11: with no forced provider and Gemini configured, get_model returns
\* gemini-pro for summarization, question_generation and homework_solver at
\* every complexity and for rag_query exactly at complexity "high", and
\* gemini-flash for every other task type and complexity.
C11_TierByTaskAndComplexity ==
  gemini_api_key =>
    \A i \in ReturnedCalls :
       model_calls[i].force_provider = None =>
         LET high == \/ model_calls[i].task_type \in HighCapabilityTasks
                     \/ /\ model_calls[i].task_type = "rag_query"
                        /\ model_calls[i].complexity = "high"
         IN  /\ selected[i].provider_name =
                  (IF high THEN "gemini-pro" ELSE "gemini-flash")
             /\ selected[i].model_identifier =
                  (IF high THEN "gemini-1.5-pro-latest"
                   ELSE "gemini-1.5-flash-latest")

\* a rag_query call at "high" and one at "medium" in the same run
C11_Witness ==
  /\ gemini_api_key
  /\ Len(selected) = 2
  /\ model_calls[1] = ModelCall("rag_query", "high", None)
  /\ model_calls[2] = ModelCall("rag_query", "medium", None)
  /\ selected[1].provider_name = "gemini-pro"
  /\ selected[2].provider_name = "gemini-flash"

Configured(force_provider) ==
  \/ force_provider = "gemini" /\ gemini_api_key
  \/ force_provider = "groq" /\ groq_client

\* C12: two calls that force the same configured provider return the same
\* provider and model whatever their task_type and complexity; a call
\* that forces a provider that is not configured returns what the call
\* with the same task_type and complexity and no forced provider returns,
\* and raises when that call raises.
C12_ForcedProviderBypassesSelection ==
  /\ \A i, j \in ReturnedCalls :
        ( /\ model_calls[i].force_provider = model_calls[j].force_provider
          /\ Configured(model_calls[i].force_provider) ) =>
          selected[i] = selected[j]
  /\ \A i, j \in ReturnedCalls :
        ( /\ model_calls[i].force_provider # None
          /\ ~Configured(model_calls[i].force_provider)
          /\ model_calls[j].force_provider = None
          /\ model_calls[j].task_type = model_calls[i].task_type
          /\ model_calls[j].complexity = model_calls[i].complexity ) =>
          selected[i] = selected[j]
  /\ (pc = "raised") =>
        /\ ~Configured(model_calls[Len(model_calls)].force_provider)
        /\ ~gemini_api_key
        /\ ~groq_client

\* Groq forced and configured for two different tasks, with Gemini
\* configured too
C12_Witness ==
  /\ gemini_api_key
  /\ groq_client
  /\ Len(selected) = 2
  /\ model_calls[1] = ModelCall("summarization", "high", "groq")
  /\ model_calls[2] = ModelCall("direct_chat", "low", "groq")
  /\ selected[1].provider_name = "groq-llama"
  /\ selected[2].provider_name = "groq-llama"

ProviderConfigured(provider_name) ==
  \/ provider_name \in { "gemini-flash", "gemini-pro" } /\ gemini_api_key
  \/ provider_name = "groq-llama" /\ groq_client

NoProviderFailure ==
  /\ pc = "failed"
  /\ error[1].cause =
       <<"N","o"," ","L","L","M"," ","a","v","a","i","l","a","b","l","e","!">>

\* C13: every model get_model returns to a request, and every generation
\* call, is for a configured provider; when only Groq is configured every
\* task gets groq-llama whatever its tier; a request fails with "No LLM
\* available!" only when no provider is configured, and then every
\* request that asks for a model fails with that error, with no generation
\* call and no result.
C13_ConfiguredProviderOrNoLLM ==
  /\ \A i \in 1..Len(selected) :
        /\ ProviderConfigured(selected[i].provider_name)
        /\ (~gemini_api_key) => selected[i].provider_name = "groq-llama"
  /\ \A i \in 1..Len(gen_calls) : ProviderConfigured(gen_calls[i].provider_name)
  /\ (gemini_api_key \/ groq_client) =>
        /\ ~NoProviderFailure
        /\ Len(selected) >= (IF model_calls = << >> THEN 0 ELSE 1)
  /\ (~gemini_api_key /\ ~groq_client /\ model_calls # << >>) =>
        /\ NoProviderFailure
        /\ gen_calls = << >>
        /\ selected = << >>
        /\ result = << >>

\* Gemini is not configured: the high-capability task is served by Groq
C13_Witness ==
  /\ ~gemini_api_key
  /\ groq_client
  /\ intent = "summarization"
  /\ pc = "done"
  /\ Len(gen_calls) = 1
  /\ gen_calls[1].provider_name = "groq-llama"
  /\ model_calls[1] = ModelCall("summarization", "high", None)

\* ------------------------------------------------------------------------
\* Properties of the document scan
\* ------------------------------------------------------------------------
ScanReturned ==
  pc = "retrieved" /\ Len(scan_calls) = 1 /\ scan_calls[1].ok

\* the requester's chunks of the given documents in the collection
ChunksInScope ==
  { id \in store :
      /\ Payloads[id].user_id = user_id
      /\ \E d \in 1..Len(document_ids.list) :
            Payloads[id].document_id = document_ids.list[d] }

\* C14: _retrieve_full_document returns at most 100 chunks, each with
\* score 1.0, in non-decreasing chunk_index order whatever the order in
\* which the scroll returned them, and all of the requester's chunks of the
\* given documents when there are at most 100 of them.
C14_ScanIsCappedScoredAndOrdered ==
  ScanReturned =>
    /\ Len(contexts) <= 100
    /\ \A i \in 1..Len(contexts) : contexts[i].score = 10
    /\ \A i \in 1..Len(contexts) : \A j \in i..Len(contexts) :
          contexts[i].chunk_index <= contexts[j].chunk_index
    /\ \A i \in 1..Len(contexts) :
          /\ contexts[i].chunk_id \in ChunksInScope
          /\ contexts[i].chunk_index = Payloads[contexts[i].chunk_id].chunk_index
          /\ \A j \in 1..Len(contexts) :
                contexts[i].chunk_id = contexts[j].chunk_id => i = j
    /\ Len(contexts) = Len(scan_calls[1].ids)
    /\ Cardinality(ChunksInScope) <= 100 =>
          { contexts[i].chunk_id : i \in 1..Len(contexts) } = ChunksInScope

\* more chunks than the cap, returned by the scroll against chunk order
C14_Witness ==
  /\ ScanReturned
  /\ Cardinality(ChunksInScope) > 100
  /\ Len(contexts) = 100
  /\ Payloads[scan_calls[1].ids[1]].chunk_index
       > Payloads[scan_calls[1].ids[2]].chunk_index
  /\ contexts[1].chunk_index < contexts[100].chunk_index

\* ------------------------------------------------------------------------
\* Properties of scoping
\* ------------------------------------------------------------------------
HasUserCondition(f) ==
  \E c \in 1..Len(f) : f[c].key = "user_id" /\ f[c].match = { user_id }

HasDocumentCondition(f) ==
  \E c \in 1..Len(f) :
     /\ f[c].key = "document_id"
     /\ f[c].match = { document_ids.list[d] : d \in 1..Len(document_ids.list) }

NoDocumentCondition(f) == \A c \in 1..Len(f) : f[c].key # "document_id"

GivenDocuments == ~document_ids.none /\ document_ids.list # << >>

InRequestScope(ctxs) ==
  \A i \in 1..Len(ctxs) :
     /\ Payloads[ctxs[i].chunk_id].user_id = user_id
     /\ GivenDocuments =>
          \E d \in 1..Len(document_ids.list) :
             ctxs[i].document_id = document_ids.list[d]

\* C15: every search, first or fallback, and every scan of a request
\* filters on the request's user_id, and on document_id in document_ids
\* when document_ids is non-empty (and on no document otherwise); the
\* contexts retrieved, the contexts put in the prompt and the contexts of
\* the result hold no chunk stored under another user's id.
C15_RetrievalIsScopedToRequester ==
  /\ \A i \in 1..Len(search_calls) :
        /\ HasUserCondition(search_calls[i].query_filter)
        /\ IF GivenDocuments
           THEN HasDocumentCondition(search_calls[i].query_filter)
           ELSE NoDocumentCondition(search_calls[i].query_filter)
        /\ \A h \in 1..Len(search_calls[i].hits) :
              Payloads[search_calls[i].hits[h].id].user_id = user_id
  /\ \A i \in 1..Len(scan_calls) :
        /\ HasUserCondition(scan_calls[i].scroll_filter)
        /\ HasDocumentCondition(scan_calls[i].scroll_filter)
  /\ InRequestScope(contexts)
  /\ InRequestScope(prompt_contexts)
  /\ result # << >> => InRequestScope(result[1].contexts)

\* another user's chunk is stored and scores above the threshold, no
\* document is named, and the answer is generated from the requester's
\* chunks
C15_Witness ==
  /\ pc = "done"
  /\ ~GivenDocuments
  /\ Len(search_calls) >= 1
  /\ search_calls[1].ok
  /\ \E id \in store :
        /\ Payloads[id].user_id # user_id
        /\ Scores[search_calls[1].query_vector][id]
             >= search_calls[1].score_threshold
  /\ result[1].contexts # << >>
  /\ Len(gen_calls) >= 1

\* ------------------------------------------------------------------------
\* Properties of the request's course
\* ------------------------------------------------------------------------
Retrieving == pc \in { "embed", "search", "search_fallback", "scan" }
Generating == pc \in { "generate", "generate_fallback", "fallback_chat" }

\* received 0, classified 1, retrieving 2, prompting 3, generating 4,
\* done or failed 5
StageOf(p) ==
  CASE p = "received" -> 0
    [] p = "classified" -> 1
    [] p \in { "embed", "search", "search_fallback", "scan" } -> 2
    [] p = "retrieved" -> 3
    [] p \in { "generate", "generate_fallback", "fallback_chat" } -> 4
    [] OTHER -> 5

RetrievalCalls == << embed_calls, search_calls, scan_calls >>

NoRetrievalCallYet ==
  embed_calls = 0 /\ search_calls = << >> /\ scan_calls = << >>

StagesInOrder ==
  /\ StageOf(pc') >= StageOf(pc)
  /\ ~Ended
  /\ RetrievalCalls' # RetrievalCalls =>
       /\ Retrieving
       /\ intent # None
       /\ gen_calls = << >>
       /\ gen_calls' = << >>
  /\ gen_calls' # gen_calls =>
       /\ Generating
       /\ ~Retrieving'
       /\ RetrievalCalls' = RetrievalCalls
  /\ intent' # intent => pc = "received" /\ NoRetrievalCallYet

EndsOneWay ==
  /\ (pc = "done") <=> (result # << >>)
  /\ (pc = "failed") <=> (error # << >>)
  /\ ~(result # << >> /\ error # << >>)
  /\ (StageOf(pc) <= 1) => (NoRetrievalCallYet /\ gen_calls = << >>)
  /\ (StageOf(pc) <= 3) => gen_calls = << >>

\* C16: a request goes through received, classified, retrieving (for the
\* intents that retrieve), prompting, generating and done or failed in
\* that order and never back: no embedding, search or scan call before the
\* intent is set, none once a generation call was made, no generation call
\* before retrieval has returned; nothing happens after done or failed,
\* done comes with a result and no error, failed with an error and no
\* result.
C16_StagesInOrder == []EndsOneWay /\ [][StagesInOrder]_vars

\* a request that failed after two searches and two generation calls has
\* been through every stage
C16_Witness ==
  /\ pc = "failed"
  /\ intent = "rag_query"
  /\ embed_calls = 1
  /\ Len(search_calls) = 2
  /\ Len(model_calls) = 2
  /\ Len(gen_calls) = 2

HandlerMessage ==
  CASE intent = "rag_query" -> "RAG processing failed"
    [] intent = "summarization" -> "Summarization failed"
    [] intent = "question_generation" -> "Question generation failed"
    [] intent = "homework_solver" -> "Homework solving failed"
    [] OTHER -> "All models failed"

\* C17: a request whose handler raised ends with exactly one exception,
\* "Query processing failed" around the handler's own message and the
\* error that caused it, and with no result: nothing of what was
\* retrieved or generated before is returned.
C17_FailureIsOneErrorAndNoResult ==
  pc = "failed" =>
    /\ result = << >>
    /\ Len(error) = 1
    /\ error[1].chain = << "Query processing failed", HandlerMessage >>
    /\ IF gen_calls # << >> /\ ~gen_calls[Len(gen_calls)].outcome.ok
       THEN error[1].cause = gen_calls[Len(gen_calls)].outcome.error
       ELSE /\ error[1].cause =
                 <<"N","o"," ","L","L","M"," ","a","v","a","i","l","a","b",
                   "l","e","!">>
            /\ gen_calls = << >>

\* contexts were retrieved and put in a prompt, the generation failed
C17_Witness ==
  /\ pc = "failed"
  /\ intent = "question_generation"
  /\ contexts # << >>
  /\ prompt_contexts # << >>
  /\ Len(gen_calls) = 1
  /\ result = << >>

\* ------------------------------------------------------------------------
\* Properties of requests without a document scope
\* ------------------------------------------------------------------------
AsksSummaryOrQuestions == MatchesSummarization \/ MatchesQuestionGeneration

CannedAnswers ==
  { NO_RELEVANT_INFORMATION, CHOOSE_DOCUMENT, NO_DOCUMENT_CONTENT,
    NO_CONTENT_FOR_QUESTIONS }

\* C18 as stated: a request that asks for a summary or for questions and
\* names no document ends with a canned answer, model "none", no contexts
\* and 0 tokens, with no embedding, search, scan or generation call.
C18_NoDocumentScopeIsCanned ==
  (Ended /\ ~GivenDocuments /\ AsksSummaryOrQuestions) =>
    /\ pc = "done"
    /\ result[1].answer \in CannedAnswers
    /\ result[1].model = << "none" >>
    /\ result[1].contexts = << >>
    /\ result[1].tokens_used = 0
    /\ NoRetrievalCallYet
    /\ gen_calls = << >>

\* C18 amended: a request that asks for a summary or for questions and
\* names no document is never handled as summarization or
\* question_generation; the other rules classify it, as direct_chat when
\* it has no document-reference, homework or code keyword, and a
\* direct_chat request asks for a model and ends with the text of a
\* generation call under that provider's name or with an error. The
\* "choose a document" answer is returned to no request at all, and the
\* "no content for questions" answer only to a request that names
\* documents and whose search found nothing.
C18_NoDocumentScopeIsReclassified ==
  /\ intent \in { "summarization", "question_generation" } => GivenDocuments
  /\ scan_calls # << >> => GivenDocuments
  /\ (pc = "classified" /\ ~GivenDocuments /\ AsksSummaryOrQuestions
        /\ ~MatchesDocumentReference /\ ~MatchesHomework /\ ~MatchesCode) =>
       intent = "direct_chat"
  /\ (Ended /\ intent = "direct_chat") =>
       /\ NoRetrievalCallYet
       /\ model_calls # << >>
       /\ pc = "done" =>
            /\ gen_calls # << >>
            /\ result[1].answer = gen_calls[Len(gen_calls)].outcome.text
            /\ result[1].model[1] = gen_calls[Len(gen_calls)].provider_name
  /\ result # << >> =>
       /\ result[1].answer # CHOOSE_DOCUMENT
       /\ result[1].answer = NO_CONTENT_FOR_QUESTIONS =>
            /\ GivenDocuments
            /\ intent = "question_generation"
            /\ contexts = << >>

\* "summarize" without documents, answered by a generation call
C18_Witness ==
  /\ pc = "done"
  /\ ~GivenDocuments
  /\ MatchesSummarization
  /\ intent = "direct_chat"
  /\ Len(gen_calls) = 1
  /\ result[1].model # << "none" >>

\* ------------------------------------------------------------------------
\* Properties of concurrent requests
\* ------------------------------------------------------------------------
Responses(r) ==
  [query_vector |-> r.query_vector,
   embed_calls |-> r.embed_calls,
   searches |-> [ i \in 1..Len(r.search_calls) |->
                    << r.search_calls[i].ok, r.search_calls[i].hits >> ],
   scans |-> [ i \in 1..Len(r.scan_calls) |->
                 << r.scan_calls[i].ok, r.scan_calls[i].ids >> ],
   generations |-> [ i \in 1..Len(r.gen_calls) |-> r.gen_calls[i].outcome ]]

Arguments(r) ==
  << r.question, r.user_id, r.document_ids, r.top_k, r.score_threshold >>

\* two requests with the same arguments that got the same responses have
\* the same outcome
SameResponsesSameOutcome ==
  ( /\ parked # << >>
    /\ Ended
    /\ parked[1].pc \in { "done", "failed" }
    /\ Arguments(parked[1]) = Arguments(Local)
    /\ Responses(parked[1]) = Responses(Local) ) =>
    /\ parked[1].pc = pc
    /\ parked[1].intent = intent
    /\ parked[1].result = result
    /\ parked[1].error = error

\* a step never writes the provider registry, the settings or the
\* collection, and it leaves the other request as it was: either the
\* other request is untouched, or control passes to it and the running
\* request is kept as it was
RequestsDoNotInterfere ==
  /\ UNCHANGED << gemini_api_key, groq_client, settings, store >>
  /\ \/ parked' = parked
     \/ /\ parked' = << Local >>
        /\ Local' = parked[1]

\* C19: with two requests in progress and control passing from one to
\* the other between any two collaborator calls, no step changes the
\* provider registry, the settings or the other request's state, and two
\* requests with the same arguments and the same collaborator responses
\* end with the same intent, result and error.
C19_RequestsAreIndependent ==
  []SameResponsesSameOutcome /\ [][RequestsDoNotInterfere]_vars

\* one request was rate-limited and waits for its retry while the other,
\* with the same arguments, has run to its end
C19_Witness ==
  /\ parked # << >>
  /\ parked[1].pc = "generate_fallback"
  /\ pc = "done"
  /\ intent = "rag_query"
  /\ Arguments(parked[1]) = Arguments(Local)
  /\ Len(search_calls) = 2

\* ------------------------------------------------------------------------
\* Properties of the retrieval thresholds
\* ------------------------------------------------------------------------
\* the handler has made its call of _retrieve_contexts
RetrievalRequested == retrieve_args # NoArgs

\* the threshold handle_rag_query passes on for this request
RagQueryThreshold == score_threshold

QUESTION_GENERATION_TOP_K == 10

\* the request came without a top_k: process_query's own default applies
DefaultTopK == top_k = RAG_TOP_K

\* C21: a question_generation request that came without a top_k retrieves
\* with top_k 10, more than the 5 a rag_query request gets by default.
C21_QuestionGenerationTopKIsLarger ==
  (intent = "question_generation" /\ RetrievalRequested /\ DefaultTopK) =>
    /\ retrieve_args.top_k = QUESTION_GENERATION_TOP_K
    /\ retrieve_args.top_k > RAG_TOP_K

\* ------------------------------------------------------------------------
\* Properties of the dispatch
\* ------------------------------------------------------------------------
NoRetrievalIntents == DirectIntents \cup { "homework_solver" }

\* the tier the first get_model call of the handler asks for
RequestedTier ==
  _select_model_key(model_calls[1].task_type, model_calls[1].complexity)

\* C22: the handler that runs is the one of the classified intent and the
\* result reports that intent: direct_chat, code_help and homework_solver
\* requests make no embedding, search or scan call; direct_chat and
\* code_help ask for the fast tier; summarization, question_generation
\* and homework_solver ask for the high-capability tier under their own
\* task type; summarization only scans, rag_query and question_generation
\* only embed and search.
C22_HandlerOfTheIntentRuns ==
  /\ intent \in NoRetrievalIntents =>
       (NoRetrievalCallYet /\ ~RetrievalRequested /\ ~Retrieving)
  /\ intent = "summarization" =>
       (embed_calls = 0 /\ search_calls = << >> /\ ~RetrievalRequested)
  /\ intent \in { "rag_query", "question_generation" } => scan_calls = << >>
  /\ (intent \in DirectIntents /\ model_calls # << >>) =>
       /\ \A i \in 1..Len(model_calls) :
            model_calls[i] = ModelCall("direct_chat", "low", None)
       /\ RequestedTier = "gemini_flash"
  /\ (intent \in HighCapabilityTasks /\ model_calls # << >>) =>
       /\ model_calls[1] = ModelCall(intent, "high", None)
       /\ RequestedTier = "gemini_pro"
  /\ (intent = "rag_query" /\ model_calls # << >>) =>
       model_calls[1].task_type = "rag_query"
  /\ (Ended /\ intent \in NoRetrievalIntents) => model_calls # << >>
  /\ result # << >> => result[1].intent = intent

\* a homework request answered without any retrieval call
C22_Witness ==
  /\ pc = "done"
  /\ intent = "homework_solver"
  /\ result[1].intent = "homework_solver"
  /\ model_calls[1].complexity = "high"
  /\ NoRetrievalCallYet
  /\ gen_calls # << >>

\* ------------------------------------------------------------------------
\* Properties of the contexts in the result
\* ------------------------------------------------------------------------
\* the request ended with an answer that a generation call produced
AnsweredByGeneration == pc = "done" /\ gen_calls # << >>

\* C23 as stated: the contexts of the result of a successful request are
\* the chunks the generation prompt was built from, in the same order.
C23_ResultContextsArePromptContexts ==
  AnsweredByGeneration => result[1].contexts = prompt_contexts

\* C23: the prompt is built from everything the retriever returned; a
\* rag_query or question_generation result carries exactly those chunks in
\* the same order, a summarization result carries only the first ten of
\* them (all of them when there are at most ten), in the same order, and
\* a request answered without retrieval carries none.
C23_ResultContextsAreFirstTenForSummary ==
  AnsweredByGeneration =>
    /\ prompt_contexts = contexts
    /\ intent \in NoRetrievalIntents =>
         (prompt_contexts = << >> /\ result[1].contexts = << >>)
    /\ intent \in { "rag_query", "question_generation" } =>
         (prompt_contexts # << >> /\ result[1].contexts = prompt_contexts)
    /\ intent = "summarization" =>
         /\ Len(result[1].contexts) =
              (IF Len(prompt_contexts) > 10 THEN 10 ELSE Len(prompt_contexts))
         /\ \A i \in 1..Len(result[1].contexts) :
              result[1].contexts[i] = prompt_contexts[i]

\* a summary of a document of more than ten chunks
C23_Witness ==
  /\ AnsweredByGeneration
  /\ intent = "summarization"
  /\ Len(prompt_contexts) > 10
  /\ Len(result[1].contexts) = 10

\* ------------------------------------------------------------------------
\* Properties of generate_text
\* ------------------------------------------------------------------------
UnexpectedGeminiResponses ==
  { G_no_candidates_key, G_no_candidates, G_no_content, G_no_parts,
    G_empty_parts, G_part_without_text }

UnexpectedGroqResponses == { Q_no_choices, Q_no_content }

UnexpectedResponse(call) ==
  \/ call.provider_name = "gemini" /\ call.response \in UnexpectedGeminiResponses
  \/ call.provider_name = "groq" /\ call.response \in UnexpectedGroqResponses

\* the call returned a string
ReturnedText(call) == ~call.outcome.raised /\ Len(call.outcome.value) = 1

\* C24: generate_text raises for every unexpected response shape of
\* either provider (Gemini: no candidates, no content or parts, empty
\* parts, part without text; Groq: no choices, message without content),
\* and whatever it returns is a text, never a missing value.
C24_UnexpectedShapeRaises ==
  pc = "call_generate_text" =>
    \A i \in 1..Len(gen_calls) :
       /\ UnexpectedResponse(gen_calls[i]) => gen_calls[i].outcome.raised
       /\ ~gen_calls[i].outcome.raised => ReturnedText(gen_calls[i])

\* ------------------------------------------------------------------------
\* Properties of the arguments that come through query_with_orchestrator
\* ------------------------------------------------------------------------
ThroughService == request # << >> /\ intent = "rag_query"

\* C25: for a rag_query request sent through query_with_orchestrator with
\* an explicit top_k above 0 and an explicit score_threshold between 0 and
\* 1, 0 included, the first similarity search has that top_k as its limit
\* and that score_threshold as its threshold, and an explicit temperature
\* of 0 is the temperature of the generation call.
C25_ExplicitArgumentsAreUsed ==
  /\ (ThroughService /\ search_calls # << >>
        /\ request[1].top_k # << >> /\ request[1].score_threshold # << >>) =>
       /\ search_calls[1].limit = request[1].top_k[1]
       /\ search_calls[1].score_threshold = request[1].score_threshold[1]
  /\ (ThroughService /\ gen_calls # << >>
        /\ request[1].temperature = << 0 >>) =>
       gen_calls[1].temperature = 0

\* ------------------------------------------------------------------------
\* Properties of the provider of the second generation call
\* ------------------------------------------------------------------------
\* _generate_with_fallback made its second call
RetriedAfterRateLimit == intent \notin DirectIntents /\ Len(gen_calls) = 2

\* C26: the retry of _generate_with_fallback after a rate limit goes to
\* Groq, a provider other than the one that was rate-limited, whichever
\* providers are configured.
C26_RetryGoesToGroq ==
  RetriedAfterRateLimit =>
    /\ gen_calls[2].provider_name = "groq-llama"
    /\ gen_calls[2].provider_name # gen_calls[1].provider_name

\* handle_direct_chat's Gemini call failed and _fallback_chat made its call
DirectChatRetried ==
  /\ intent \in DirectIntents
  /\ Len(gen_calls) = 2
  /\ gen_calls[1].provider_name = "gemini-flash"
  /\ ~gen_calls[1].outcome.ok

\* C27: when the Gemini call of handle_direct_chat fails and Groq is
\* configured, the call of _fallback_chat goes to Groq, a provider other
\* than the one that just failed.
C27_DirectChatFallsBackToGroq ==
  (DirectChatRetried /\ groq_client) =>
    /\ gen_calls[2].provider_name = "groq-llama"
    /\ gen_calls[2].provider_name # gen_calls[1].provider_name

\* ------------------------------------------------------------------------
\* Properties of the intent against the document scope
\* ------------------------------------------------------------------------
IntentKnown == pc # "received"

\* C28: through process_query a request that carries at least one document
\* id is never classified direct_chat, a request that carries none (absent
\* or empty list) is never classified summarization or
\* question_generation, and so the "choose a document" answer of
\* handle_summarization is never returned.
C28_IntentFitsDocumentScope ==
  /\ (IntentKnown /\ GivenDocuments) => intent # "direct_chat"
  /\ (IntentKnown /\ ~GivenDocuments) =>
       intent \notin { "summarization", "question_generation" }
  /\ IntentKnown =>
       /\ has_documents = GivenDocuments
       /\ (document_count > 0) = GivenDocuments
  /\ (pc = "done" /\ intent = "summarization") =>
       (GivenDocuments /\ scan_calls # << >>
          /\ result[1].answer # CHOOSE_DOCUMENT)

\* a request with documents and no keyword at all, classified rag_query
C28_Witness ==
  /\ pc = "classified"
  /\ GivenDocuments
  /\ question = F_pad50 \o F_pad50
  /\ intent = "rag_query"

\* ------------------------------------------------------------------------
\* Properties of the provider label of the result
\* ------------------------------------------------------------------------
LabelledNone == result[1].model = << "none" >>

LastGenCall == gen_calls[Len(gen_calls)]

\* C29: the provider label of a result is "none" exactly when the request
\* made no generation call, and then the token estimate is 0 and the
\* contexts are empty; a result that follows a generation call follows a
\* successful one, carries its text and is labelled with the name of the
\* provider that call went to.
C29_LabelNoneIffNoGeneration ==
  result # << >> =>
    /\ LabelledNone <=> gen_calls = << >>
    /\ gen_calls = << >> =>
         /\ result[1].tokens_used = 0
         /\ result[1].contexts = << >>
         /\ result[1].answer \in CannedAnswers
    /\ gen_calls # << >> =>
         /\ LastGenCall.outcome.ok
         /\ result[1].answer = LastGenCall.outcome.text
         /\ result[1].model[1] = LastGenCall.provider_name
         /\ \A i \in 1..(Len(gen_calls) - 1) : ~gen_calls[i].outcome.ok

\* a question-generation request whose retrieval found nothing
C29_Witness ==
  /\ pc = "done"
  /\ intent = "question_generation"
  /\ LabelledNone
  /\ gen_calls = << >>
  /\ search_calls # << >>
  /\ result[1].tokens_used = 0

\* ------------------------------------------------------------------------
\* Properties of the searches of a question-generation request
\* ------------------------------------------------------------------------
DefaultFloor == settings.RAG_MIN_SCORE_THRESHOLD = RAG_MIN_SCORE_THRESHOLD

\* _retrieve_contexts has returned to the handler
RetrievalOver == pc \notin { "received", "classified", "embed", "search",
                             "search_fallback", "scan" }

\* C30: with the default floor 0.3 a question_generation request never
\* makes the second, lower-threshold search: its fixed threshold 0.3 is not
\* above the floor. Once its embedding has succeeded it makes exactly one
\* search, at 0.3, however few hits that search returns and whether or not
\* the fallback is enabled.
C30_QuestionGenerationSearchesOnce ==
  (intent = "question_generation" /\ DefaultFloor) =>
    /\ pc # "search_fallback"
    /\ Len(search_calls) <= 1
    /\ ~(retrieve_args.score_threshold > settings.RAG_MIN_SCORE_THRESHOLD)
    /\ (RetrievalOver /\ query_vector # None) =>
         /\ Len(search_calls) = 1
         /\ search_calls[1].score_threshold = QUESTION_GENERATION_THRESHOLD

\* a question-generation request whose only search found no hit at all
\* although the fallback is enabled
C30_Witness ==
  /\ intent = "question_generation"
  /\ DefaultFloor
  /\ settings.RAG_ENABLE_FALLBACK
  /\ pc = "done"
  /\ Len(search_calls) = 1
  /\ search_calls[1].ok
  /\ search_calls[1].hits = << >>
  /\ top_k = MaxTopK

====
